---- MODULE Spec2Model ----
(***************************************************************************)
(* Model of the E-LAUTE transform pipeline: the coordinator               *)
(* (scripts/coordinator.py), the provenance helper (scripts/utils.py) and *)
(* the transforms of scripts/script_collection.py, in particular the      *)
(* structural alignment add_section_foldir_from_context_to_ed.            *)
(*                                                                         *)
(* A document is a tree of elements.  An element is a record               *)
(*   [uid, ns, tag, n, facs, tstamp, type, id, text, kids]                 *)
(* uid is the identity of the lxml element object (two elements with the  *)
(* same content are still two objects), ns is "mei" for an element parsed *)
(* from a file and "" for one made by etree.SubElement / etree.Element    *)
(* with a bare tag, and an absent attribute holds NoneV.                  *)
(* A parsed root is [surfaces, score, appInfo]: the surface elements found *)
(* by //mei:facsimile/mei:surface, the children of the score element, and *)
(* the application records of the header's appInfo.                       *)
(* A string that the code takes apart (a file stem, a notation type) is   *)
(* the sequence of its parts, the "_" separators included.                *)
(***************************************************************************)
EXTENDS Integers, Sequences, FiniteSets, TLC

\* ------------------------------------------------------------------ bounds
MaxChildren == 3
MaxSurfaces == 2
MaxEntries == 2
MaxSteps == 2
MaxItems == 2
MaxNotes == 2
MaxFiles == 3

\* ------------------------------------------------------- values and nodes
NoneV == "None"

El(uid, ns, tag, n, facs, tstamp, type, id, text, kids) ==
    [uid |-> uid, ns |-> ns, tag |-> tag, n |-> n, facs |-> facs,
     tstamp |-> tstamp, type |-> type, id |-> id, text |-> text, kids |-> kids]

Mei(uid, tag, n, kids) ==
    El(uid, "mei", tag, n, NoneV, NoneV, NoneV, NoneV, NoneV, kids)

IsTag(node, tag) == node.ns = "mei" /\ node.tag = tag

\* a page-reference annotation as it stands in a parsed file
RefDir(tstamp) ==
    El(0, "mei", "dir", NoneV, NoneV, tstamp, "ref", NoneV, NoneV, <<>>)

Exc(type, words, quoted) == [type |-> type, words |-> words, quoted |-> quoted]

NoExc == Exc("none", <<>>, <<>>)

RECURSIVE Flat(_)
Flat(ss) == IF ss = <<>> THEN <<>> ELSE Head(ss) \o Flat(Tail(ss))

\* ------------------------------------------------------------ tree walks
\* document order (tree.iter() / xpath descendant axis) over a forest, each
\* element with its path, its depth, the tags of its ancestors and its parent
RECURSIVE IterFrom(_, _, _, _)
IterFrom(forest, path, anc, parent) ==
    Flat([i \in 1..Len(forest) |->
            <<[node |-> forest[i], path |-> Append(path, i),
               anc |-> anc, parent |-> parent]>>
            \o IterFrom(forest[i].kids, Append(path, i),
                        IF forest[i].ns = "mei" THEN Append(anc, forest[i].tag) ELSE anc,
                        forest[i])])

Iter(forest) == IterFrom(forest, <<>>, <<>>, Mei(0, "score", NoneV, <<>>))

InSeq(x, s) == \E i \in 1..Len(s) : s[i] = x

\* root.xpath(".//mei:<tag>")
Descendants(forest, tag) ==
    LET all == Iter(forest)
        hit(e) == IsTag(e.node, tag)
    IN  SelectSeq(all, hit)

\* --------------------------------------------- script_collection: helpers
\* int(s) of a measure number: the numerals the model uses
MaxNum == 9

IsNumeral(s) == \E k \in 0..MaxNum : ToString(k) = s

IntOf(s) == CHOOSE k \in 0..MaxNum : ToString(k) = s

\* get_last_mnum: int(measures[-1].get("n", "no_n")) of the last measure of
\* the document
get_last_mnum(root) ==
    LET measures == Descendants(root.score, "measure")
    IN
    IF measures = <<>>
    THEN [exc |-> Exc("IndexError", <<"list", "index", "out", "of", "range">>, <<>>),
          val |-> 0]
    ELSE IF measures[Len(measures)].node.n = NoneV
            \/ ~IsNumeral(measures[Len(measures)].node.n)
    THEN [exc |-> Exc("ValueError", <<"invalid", "literal", "for", "int">>, <<>>),
          val |-> 0]
    ELSE [exc |-> NoExc, val |-> IntOf(measures[Len(measures)].node.n)]

\* add_foldir: the measure with a dir (type ref) appended to its children
add_foldir(measure, fol, tstamp) ==
    LET rend == El(0, "", "rend", NoneV, NoneV, NoneV, NoneV, NoneV, "fol. " \o fol, <<>>)
        dir == El(0, "", "dir", NoneV, NoneV, tstamp, "ref", NoneV, NoneV, <<rend>>)
    IN  [measure EXCEPT !.kids = Append(@, dir)]

\* manual_unwrap applied to every section that has a section ancestor, in
\* document order: each is replaced, in place, by its children
RECURSIVE manual_unwrap(_, _)
manual_unwrap(forest, inside) ==
    Flat([i \in 1..Len(forest) |->
            IF inside /\ IsTag(forest[i], "section")
            THEN manual_unwrap(forest[i].kids, TRUE)
            ELSE <<[forest[i] EXCEPT !.kids =
                      manual_unwrap(@, inside \/ IsTag(forest[i], "section"))]>>])

\* parent.remove(x) for the first element with the tag, in document order
RECURSIVE RemoveFirst(_, _)
RemoveFirst(forest, tag) ==
    IF forest = <<>> THEN [found |-> FALSE, forest |-> <<>>]
    ELSE LET h == Head(forest)
         IN  IF IsTag(h, tag) THEN [found |-> TRUE, forest |-> Tail(forest)]
             ELSE LET sub == RemoveFirst(h.kids, tag)
                  IN  IF sub.found
                      THEN [found |-> TRUE,
                            forest |-> <<[h EXCEPT !.kids = sub.forest]>> \o Tail(forest)]
                      ELSE LET rest == RemoveFirst(Tail(forest), tag)
                           IN  [found |-> rest.found, forest |-> <<h>> \o rest.forest]

\* children of an element that match ./mei:dir[@type='ref']
RefDirs(node) ==
    LET hit(k) == IsTag(k, "dir") /\ k.type = "ref"
    IN  SelectSeq(node.kids, hit)

\* get_depth is called by get_previous_at_same_depth and defined in no file
\* of scripts/: the nesting depth of the element
get_depth(entry) == Len(entry.path)

\* get_previous_at_same_depth: the element before this one among the
\* elements of the same depth, in document order; <<>> is None
get_previous_at_same_depth(forest, entry) ==
    LET sameD(e) == get_depth(e) = get_depth(entry)
        same_depth == SelectSeq(Iter(forest), sameD)
        at(i) == same_depth[i].path = entry.path
        idx == CHOOSE i \in 1..Len(same_depth) : at(i)
    IN  IF idx > 1 THEN <<same_depth[idx - 1].node>> ELSE <<>>

\* one turn of the loop of lines 483-507 for the element e: what it raises,
\* or the entry it appends (none for a measure under orig); prev is the
\* result of get_previous_at_same_depth, pbs the children of e's parent that
\* match ./mei:pb (DiplEntry_OrigCounted: a measure under orig is treated like
\* any other)
DiplEntry_OrigCounted(e, prev, pbs) ==
    IF ~IsTag(e.node, "measure")
    THEN [exc |-> Exc("RuntimeError", <<"foldir", "parent", "wasn't", "measure">>, <<>>),
          entries |-> <<>>]
    ELSE IF InSeq("reg", e.anc)
    THEN IF Len(pbs) # 1
         THEN [exc |-> Exc("RuntimeError", <<"More", "than", "one", "pb", "in", "reg">>, <<>>),
               entries |-> <<>>]
         ELSE [exc |-> NoExc,
               entries |-> <<<<e.node.n, pbs[1].n, RefDirs(e.node)[1].tstamp>>>>]
    ELSE IF prev = <<>> \/ ~IsTag(prev[1], "pb")
    THEN [exc |-> Exc("RuntimeError", <<"No", "pb", "found", "before">>, <<>>),
          entries |-> <<>>]
    ELSE [exc |-> NoExc,
          entries |-> <<<<e.node.n, prev[1].n, RefDirs(e.node)[1].tstamp>>>>]

DiplEntry(e, prev, pbs) ==
    IF ~IsTag(e.node, "measure")
    THEN [exc |-> Exc("RuntimeError", <<"foldir", "parent", "wasn't", "measure">>, <<>>),
          entries |-> <<>>]
    ELSE IF InSeq("orig", e.anc) THEN [exc |-> NoExc, entries |-> <<>>]
    ELSE IF InSeq("reg", e.anc)
    THEN IF Len(pbs) # 1
         THEN [exc |-> Exc("RuntimeError", <<"More", "than", "one", "pb", "in", "reg">>, <<>>),
               entries |-> <<>>]
         ELSE [exc |-> NoExc,
               entries |-> <<<<e.node.n, pbs[1].n, RefDirs(e.node)[1].tstamp>>>>]
    ELSE IF prev = <<>> \/ ~IsTag(prev[1], "pb")
    THEN [exc |-> Exc("RuntimeError", <<"No", "pb", "found", "before">>, <<>>),
          entries |-> <<>>]
    ELSE [exc |-> NoExc,
          entries |-> <<<<e.node.n, prev[1].n, RefDirs(e.node)[1].tstamp>>>>]

\* get_section_info_dipl, the loop over pb_measures from position i on
RECURSIVE section_info_dipl_from(_, _, _, _)
RECURSIVE DiplAfter(_, _, _, _, _)
DiplAfter(forest, pb_measures, i, acc, r) ==
    IF r.exc # NoExc THEN [exc |-> r.exc, info |-> acc]
    ELSE section_info_dipl_from(forest, pb_measures, i + 1, acc \o r.entries)

section_info_dipl_from(forest, pb_measures, i, acc) ==
    IF i > Len(pb_measures) THEN [exc |-> NoExc, info |-> acc]
    ELSE DiplAfter(forest, pb_measures, i, acc,
                   DiplEntry(pb_measures[i],
                             get_previous_at_same_depth(forest, pb_measures[i]),
                             LET isPb(k) == IsTag(k, "pb")
                             IN  SelectSeq(pb_measures[i].parent.kids, isPb)))

\* lines 475-481: without a page reference the gathering raises
get_section_info_dipl(help_dom) ==
    LET hasRef(e) == RefDirs(e.node) # <<>>
        pb_measures == SelectSeq(Iter(help_dom.dom.score), hasRef)
    IN  IF pb_measures = <<>>
        THEN [exc |-> Exc("RuntimeError", <<"No", "foldir", "in">>, <<>>), info |-> <<>>]
        ELSE section_info_dipl_from(help_dom.dom.score, pb_measures, 1, <<>>)

\* lines 517-522 for one section: its entry, from its measures
EdEntry(help_section, help_measures) ==
    IF help_measures = <<>>
    THEN [exc |-> Exc("IndexError", <<"list", "index", "out", "of", "range">>, <<>>),
          entries |-> <<>>]
    ELSE IF RefDirs(help_measures[1].node) = <<>>
    THEN [exc |-> Exc("RuntimeError", <<"no", "foldir", "found", "in">>, <<>>),
          entries |-> <<>>]
    ELSE [exc |-> NoExc,
          entries |-> <<<<help_measures[1].node.n, help_section.n,
                          RefDirs(help_measures[1].node)[1].tstamp>>>>]

\* get_section_info_ed, the loop over the sections with @n from position i on
RECURSIVE section_info_ed_from(_, _, _)
RECURSIVE EdAfter(_, _, _, _)
EdAfter(help_sections, i, acc, r) ==
    IF r.exc # NoExc THEN [exc |-> r.exc, info |-> acc]
    ELSE section_info_ed_from(help_sections, i + 1, acc \o r.entries)

section_info_ed_from(help_sections, i, acc) ==
    IF i > Len(help_sections) THEN [exc |-> NoExc, info |-> acc]
    ELSE EdAfter(help_sections, i, acc,
                 EdEntry(help_sections[i].node,
                         Descendants(help_sections[i].node.kids, "measure")))

get_section_info_ed(help_dom) ==
    LET hasN(e) == IsTag(e.node, "section") /\ e.node.n # NoneV
    IN  section_info_ed_from(SelectSeq(Iter(help_dom.dom.score), hasN), 1, <<>>)

\* ---------------------- script_collection: add_section_foldir_from_context_to_ed
\* line 420: the facs value that points at a surface
SurfaceRef_NoHash(surface) == surface.id

SurfaceRef(surface) == "#" \o surface.id

\* the list comprehension of lines 424-432: one SubElement(score, "section")
\* per (section_info, surface_id) pair; a folio label of None makes
\* SubElement raise after the earlier sections were attached
RECURSIVE CreateSections(_, _, _, _)
CreateSections(section_info, surface_id, i, acc) ==
    IF i > Len(section_info) THEN [exc |-> NoExc, made |-> acc]
    ELSE IF section_info[i][2] = NoneV
    THEN [exc |-> Exc("TypeError", <<"Argument", "must", "be", "bytes", "or", "unicode">>,
                      <<"NoneType">>),
          made |-> acc]
    ELSE CreateSections(section_info, surface_id, i + 1,
             Append(acc, El(1000 + i, "", "section", section_info[i][2], surface_id[i],
                            NoneV, NoneV, NoneV, NoneV, <<>>)))

\* section_info[current_section][3].append(child): lxml moves the child to
\* the end of the k-th new section
AppendChild_OnlyMeasures(made, k, child) ==
    IF child.tag = "measure" THEN [made EXCEPT ![k].kids = Append(@, child)] ELSE made

AppendChild(made, k, child) == [made EXCEPT ![k].kids = Append(@, child)]

\* the loop of lines 438-456 from child i on; st = [i, current_section,
\* made (the new sections with the children appended so far), exc]
RECURSIVE Walk(_, _, _)
Walk(section_children, section_info, st) ==
    IF st.i > Len(section_children) THEN st
    ELSE
    LET child == section_children[st.i]
        len == Len(section_info)
        current_n == IF child.n = NoneV THEN "" ELSE child.n
        boundary == /\ IsTag(child, "measure")
                    /\ st.current_section # len - 1
                    /\ current_n = section_info[st.current_section + 2][1]
        cur == IF boundary THEN st.current_section + 1 ELSE st.current_section
        \* section_info[cur] of Python for a possibly negative cur, 1-based
        k == IF cur < 0 THEN len + cur + 1 ELSE cur + 1
        fol == section_info[k][2]
        tstamp == section_info[k][3]
    IN  IF len = 0
        THEN [st EXCEPT !.exc = Exc("IndexError",
                                    <<"list", "index", "out", "of", "range">>, <<>>)]
        ELSE IF boundary /\ tstamp = NoneV
        THEN [st EXCEPT !.i = @ + 1, !.current_section = cur,
                        !.made = AppendChild(@, k, child),
                        !.exc = Exc("TypeError",
                                    <<"Argument", "must", "be", "bytes", "or", "unicode">>,
                                    <<"NoneType">>)]
        ELSE Walk(section_children, section_info,
                  [st EXCEPT !.i = @ + 1, !.current_section = cur,
                             !.made =
                                 AppendChild(@, k,
                                     IF boundary THEN add_foldir(child, fol, tstamp)
                                     ELSE child)])

\* lines 384-395: with an expansion, the expansion is removed and the nested
\* sections are unwrapped; without one the RuntimeError is built, not raised
UnwrapPhase(score) ==
    LET expansion == RemoveFirst(score, "expansion")
    IN  IF expansion.found THEN manual_unwrap(expansion.forest, FALSE) ELSE score

\* the first context_dom whose notationtype equals getElemFrom, <<>> if none
SelectContext(context_doms, getElemFrom) ==
    LET hit(c) == c.notationtype = getElemFrom
    IN  SelectSeq(context_doms, hit)

\* lines 407-412: the comparison of the two last measure numbers
\* (EdGather_NoComparison: the entries are gathered whatever the numbers)
EdGather_NoComparison(mine, theirs, help_dom) == get_section_info_ed(help_dom)

EdGather(mine, theirs, help_dom) ==
    IF mine.exc # NoExc THEN [exc |-> mine.exc, info |-> <<>>]
    ELSE IF theirs.exc # NoExc THEN [exc |-> theirs.exc, info |-> <<>>]
    ELSE IF mine.val = theirs.val THEN get_section_info_ed(help_dom)
    ELSE [exc |-> Exc("RuntimeError",
                      <<"has", "diffrent", "number", "of", "measures", "from">>, <<>>),
          info |-> <<>>]

\* What the transform leaves: the exception (NoExc on return), the document
\* (lxml mutates in place, so also on a raise), the place the call ended
\* (at), the SectionInfo entries, and the new sections as the walk left them
Res(at, exc, root, score, info, made) ==
    [at |-> at, exc |-> exc, dom |-> [root EXCEPT !.score = score],
     info |-> info, made |-> made]

\* lines 458-468, after the walk: score holds the section at p
AlignFinish(root, score, p, section_info, walked) ==
    IF walked.exc # NoExc
    THEN Res("walk", walked.exc, root,
             [score EXCEPT ![p].kids = SubSeq(@, walked.i, Len(@))] \o walked.made,
             section_info, walked.made)
    ELSE IF walked.current_section # Len(section_info) - 1
    THEN Res("misaligned",
             Exc("RuntimeError", <<"wasn't", "processed", "because", "of", "misalignment">>,
                 <<>>),
             root,
             [score EXCEPT ![p].kids = SubSeq(@, walked.i, Len(@))] \o walked.made,
             section_info, walked.made)
    ELSE Res("ok", NoExc, root,
             SubSeq(score, 1, p - 1) \o SubSeq(score, p + 1, Len(score)) \o walked.made,
             section_info, walked.made)

\* lines 434-456, after the new sections were made
AlignWalk(root, score, p, section_info, created) ==
    IF created.exc # NoExc
    THEN Res("create", created.exc, root, score \o created.made, section_info,
             created.made)
    ELSE AlignFinish(root, score, p, section_info,
                     Walk(score[p].kids, section_info,
                          [i |-> 1, current_section |-> -1, made |-> created.made,
                           exc |-> NoExc]))

\* lines 414-432, after the SectionInfo entries were gathered
AlignValidate(root, score, p, gathered) ==
    IF gathered.exc # NoExc THEN Res("gather", gathered.exc, root, score, <<>>, <<>>)
    ELSE IF Len(root.surfaces) # Len(gathered.info)
    THEN Res("count",
             Exc("RuntimeError", <<"surfaces", "don't", "match", "number", "of", "sections">>,
                 <<>>),
             root, score, gathered.info, <<>>)
    ELSE AlignWalk(root, score, p, gathered.info,
                   CreateSections(gathered.info,
                                  [i \in 1..Len(root.surfaces) |->
                                      SurfaceRef(root.surfaces[i])],
                                  1, <<>>))

\* lines 397-412, after lines 384-395; with one section in the document it
\* is a child of the score, at sections[1].path[1]; the SectionInfo entries
\* come from a dipl or an ed context (lines 404-412)
\* (AlignGather_AnySections: the first section taken however many there are)
AlignGather_AnySections(root, score, help_dom, sections) ==
    IF Len(sections) = 0
    THEN Res("sections",
             Exc("RuntimeError", <<"number", "of", "section", "is", "not", "1">>, <<>>),
             root, score, <<>>, <<>>)
    ELSE AlignValidate(root, score, sections[1].path[1],
                       IF InSeq("dipl", help_dom.notationtype)
                       THEN get_section_info_dipl(help_dom)
                       ELSE EdGather(get_last_mnum([root EXCEPT !.score = score]),
                                     get_last_mnum(help_dom.dom), help_dom))

AlignGather(root, score, help_dom, sections) ==
    IF Len(sections) # 1
    THEN Res("sections",
             Exc("RuntimeError", <<"number", "of", "section", "is", "not", "1">>, <<>>),
             root, score, <<>>, <<>>)
    ELSE AlignValidate(root, score, sections[1].path[1],
                       IF InSeq("dipl", help_dom.notationtype)
                       THEN get_section_info_dipl(help_dom)
                       ELSE EdGather(get_last_mnum([root EXCEPT !.score = score]),
                                     get_last_mnum(help_dom.dom), help_dom))

\* lines 374-397, after the notation type was accepted
AlignSelected(root, helps) ==
    IF helps = <<>>
    THEN Res("context",
             Exc("RuntimeError", <<"needs", "context_dom", "not", "found">>, <<>>),
             root, root.score, <<>>, <<>>)
    ELSE AlignGather(root, UnwrapPhase(root.score), helps[1],
                     Descendants(UnwrapPhase(root.score), "section"))

\* the whole transform
add_section_foldir_from_context_to_ed(active_dom, context_doms, getElemFrom) ==
    IF ~InSeq("ed", active_dom.notationtype)
    THEN Res("notationtype",
             Exc("RuntimeError", <<"must", "be", "ed_GLT", "or", "ed_CMN">>, <<>>),
             active_dom.dom, active_dom.dom.score, <<>>, <<>>)
    ELSE AlignSelected(active_dom.dom, SelectContext(context_doms, getElemFrom))

\* ------------------------------------- script_collection: system breaks
\* add_sbs_every_n, lines 34-40: measures are counted in document order and
\* an sb is inserted after every sbInterval-th one; count = measures so far
RECURSIVE InsertSbs(_, _, _)
InsertSbs(forest, count, sbInterval) ==
    IF forest = <<>> THEN [forest |-> <<>>, count |-> count]
    ELSE LET h == Head(forest)
             isM == IsTag(h, "measure")
             c1 == IF isM THEN count + 1 ELSE count
             sub == InsertSbs(h.kids, c1, sbInterval)
             rest == InsertSbs(Tail(forest), sub.count, sbInterval)
             h2 == [h EXCEPT !.kids = sub.forest]
             Sb == El(0, "", "sb", NoneV, NoneV, NoneV, NoneV, NoneV, NoneV, <<>>)
         IN  [forest |-> (IF isM /\ c1 % sbInterval = 0 THEN <<h2, Sb>> ELSE <<h2>>)
                         \o rest.forest,
              count |-> rest.count]

\* (add_sbs_every_n_FromZero: count % sbInterval in place of (count + 1) %
\* sbInterval)
add_sbs_every_n_FromZero(active_dom, sbInterval) ==
    LET root == active_dom.dom
    IN  IF sbInterval = 0 /\ Descendants(root.score, "measure") # <<>>
        THEN [exc |-> Exc("ZeroDivisionError", <<"integer", "modulo", "by", "zero">>, <<>>),
              dom |-> root]
        ELSE IF sbInterval = 0 THEN [exc |-> NoExc, dom |-> root]
        ELSE [exc |-> NoExc,
              dom |-> [root EXCEPT !.score = InsertSbs(@, sbInterval - 1, sbInterval).forest]]

add_sbs_every_n(active_dom, sbInterval) ==
    LET root == active_dom.dom
    IN  IF sbInterval = 0 /\ Descendants(root.score, "measure") # <<>>
        THEN [exc |-> Exc("ZeroDivisionError", <<"integer", "modulo", "by", "zero">>, <<>>),
              dom |-> root]
        ELSE IF sbInterval = 0 THEN [exc |-> NoExc, dom |-> root]
        ELSE [exc |-> NoExc,
              dom |-> [root EXCEPT !.score = InsertSbs(@, 0, sbInterval).forest]]

\* remove_all_sbs, lines 60-64: every element found by .//mei:sb is removed
RECURSIVE RemoveSbs(_)
RemoveSbs(forest) ==
    Flat([i \in 1..Len(forest) |->
            IF IsTag(forest[i], "sb") THEN <<>>
            ELSE <<[forest[i] EXCEPT !.kids = RemoveSbs(@)]>>])

remove_all_sbs(active_dom) ==
    [exc |-> NoExc, dom |-> [active_dom.dom EXCEPT !.score = RemoveSbs(@)]]

\* ---------------------------------------------------- utils: edit_appInfo
\* root.appInfo is <<>> when the header has no appInfo element and
\* <<applications>> otherwise; today is the day date.today() returns, written
\* into the attributes by isoformat()
\* (edit_appInfo_KeepsIsodate: the isodate of an earlier day left in place)
edit_appInfo_KeepsIsodate(root, p_description, today) ==
    LET GHName == "GitHub Action Scripts"
        isoformat == ToString(today)
        apps == root.appInfo[1]
        mine(i) == apps[i].ns = "mei" /\ apps[i].name = GHName
        found == {i \in 1..Len(apps) : mine(i)}
        k == CHOOSE i \in found : \A j \in found : i <= j
        application == apps[k]
        moved == application
        dated == IF moved.isodate = NoneV THEN [moved EXCEPT !.enddate = isoformat]
                 ELSE moved
        fresh == [ns |-> "", name |-> GHName, isodate |-> isoformat, startdate |-> NoneV,
                  enddate |-> NoneV, ps |-> <<p_description>>]
    IN  IF root.appInfo = <<>>
        THEN [exc |-> Exc("TypeError", <<"Argument", "'_parent'", "has", "incorrect", "type">>,
                          <<"_parent">>),
              dom |-> root]
        ELSE IF found = {}
        THEN [exc |-> NoExc, dom |-> [root EXCEPT !.appInfo[1] = Append(@, fresh)]]
        ELSE [exc |-> NoExc,
              dom |-> [root EXCEPT !.appInfo[1][k] =
                          [dated EXCEPT !.ps = Append(@, p_description)]]]

edit_appInfo(root, p_description, today) ==
    LET GHName == "GitHub Action Scripts"
        isoformat == ToString(today)
        apps == root.appInfo[1]
        mine(i) == apps[i].ns = "mei" /\ apps[i].name = GHName
        found == {i \in 1..Len(apps) : mine(i)}
        k == CHOOSE i \in found : \A j \in found : i <= j
        application == apps[k]
        moved == IF application.isodate # NoneV /\ application.isodate # isoformat
                 THEN [application EXCEPT !.startdate = application.isodate,
                                          !.isodate = NoneV]
                 ELSE application
        dated == IF moved.isodate = NoneV THEN [moved EXCEPT !.enddate = isoformat]
                 ELSE moved
        fresh == [ns |-> "", name |-> GHName, isodate |-> isoformat, startdate |-> NoneV,
                  enddate |-> NoneV, ps |-> <<p_description>>]
    IN  IF root.appInfo = <<>>
        THEN [exc |-> Exc("TypeError", <<"Argument", "'_parent'", "has", "incorrect", "type">>,
                          <<"_parent">>),
              dom |-> root]
        ELSE IF found = {}
        THEN [exc |-> NoExc, dom |-> [root EXCEPT !.appInfo[1] = Append(@, fresh)]]
        ELSE [exc |-> NoExc,
              dom |-> [root EXCEPT !.appInfo[1][k] =
                          [dated EXCEPT !.ps = Append(@, p_description)]]]

\* tree.write followed by a later etree.parse: the elements made with a bare
\* tag are written without a namespace declaration of their own and are
\* read back in the default (MEI) namespace of the file
RECURSIVE Reparse(_)
Reparse(forest) ==
    [i \in 1..Len(forest) |->
        [forest[i] EXCEPT !.ns = "mei", !.kids = Reparse(@)]]

\* ------------------------------------------------ coordinator: file names
EditionLevels == {"dipl", "ed"}

\* re.match(r".+_enc_((dipl|ed)_(GLT|FLT|ILT|CMN))", stem): the positions i
\* of the "_" before "enc" at which the pattern matches; ".+" needs i >= 2
\* and nothing anchors the end of the stem
MatchPositions(stem) ==
    {i \in 2..(Len(stem) - 5) :
        /\ stem[i] = "_" /\ stem[i + 1] = "enc" /\ stem[i + 2] = "_"
        /\ stem[i + 3] \in EditionLevels /\ stem[i + 4] = "_"
        /\ stem[i + 5] \in {"GLT", "FLT", "ILT", "CMN"}}

\* determine_notationtype: group(3) of the match; ".+" is greedy, so the
\* match is the one at the last position
determine_notationtype(stem) ==
    LET hits == MatchPositions(stem)
        i == CHOOSE h \in hits : \A g \in hits : g <= h
    IN  IF hits = {}
        THEN [exc |-> Exc("NameError", <<"doesn't", "fit", "E_LAUTE", "naming", "conventions">>,
                          <<>>),
              val |-> <<>>]
        ELSE [exc |-> NoExc, val |-> <<stem[i + 5]>>]

\* parse_and_wrap_dom: the wrapper of the file with this stem and content
parse_and_wrap_dom(stem, content) ==
    LET nt == determine_notationtype(stem)
    IN  [exc |-> nt.exc,
         val |-> [filename |-> stem, notationtype |-> nt.val, dom |-> content]]

\* ------------------------------------------------------------ the inputs
\* Folio labels and timestamps of the i-th page of a context document
Folio(i) == ToString(i) \o "r"

MeasureNumbers == {"1", "2"}

\* the i-th child of the active document's section: a measure with that
\* number, or a system break
Leaves(kinds) ==
    [i \in 1..Len(kinds) |->
        IF kinds[i] = "sb" THEN Mei(i, "sb", NoneV, <<>>)
        ELSE Mei(i, "measure", kinds[i], <<>>)]

\* the i-th child of a section as a measure numbered n whose one layer holds
\* a note of each of these durations: a note carries a dur attribute
Sounding(i, n, notes) ==
    Mei(i, "measure", n,
        <<Mei(10 * i, "layer", NoneV,
              [k \in 1..Len(notes) |->
                  [uid |-> 10 * i + k, ns |-> "mei", tag |-> "note", n |-> NoneV,
                   facs |-> NoneV, tstamp |-> NoneV, type |-> NoneV, id |-> NoneV,
                   text |-> NoneV, kids |-> <<>>, dur |-> notes[k], dots |-> NoneV]])>>)

Surface(i) == El(200 + i, "mei", "surface", NoneV, NoneV, NoneV, NoneV, "s" \o ToString(i),
                 NoneV, <<>>)

Shapes == {"flat", "expansion", "nested_expansion", "nested", "two"}

\* the score children of an active document with these section children
ScoreOf(kids, shape) ==
    LET expansion == Mei(50, "expansion", NoneV, <<>>)
        inner == Mei(101, "section", NoneV, IF kids = <<>> THEN <<>> ELSE <<kids[1]>>)
        nest == <<inner>> \o SubSeq(kids, 2, Len(kids))
    IN  CASE shape = "flat" -> <<Mei(100, "section", NoneV, kids)>>
          [] shape = "expansion" -> <<Mei(100, "section", NoneV, <<expansion>> \o kids)>>
          [] shape = "nested_expansion" ->
                <<Mei(100, "section", NoneV, <<expansion>> \o nest)>>
          [] shape = "nested" -> <<Mei(100, "section", NoneV, nest)>>
          [] shape = "two" ->
                <<Mei(100, "section", NoneV, kids), Mei(101, "section", NoneV, <<>>)>>

NoApps == <<<<>>>>

Root(surfaces, score, appInfo) ==
    [surfaces |-> surfaces, score |-> score, appInfo |-> appInfo]

ActiveRoot(kinds, shape, nsurf) ==
    Root([i \in 1..nsurf |-> Surface(i)], ScoreOf(Leaves(kinds), shape), NoApps)

\* the measure numbers at which the pages of a context document begin
Boundaries == UNION {[1..k -> MeasureNumbers] : k \in 0..MaxEntries}

RefMeasure(i, n) == Mei(300 + i, "measure", n, <<RefDir(ToString(i))>>)

\* an edition-style context: one section per page, its first measure with
\* the page reference, and a last measure numbered last
EdRoot(b, last) ==
    Root(<<>>,
         [i \in 1..Len(b) |-> Mei(400 + i, "section", Folio(i), <<RefMeasure(i, b[i])>>)]
         \o <<Mei(399, "measure", last, <<>>)>>,
         NoApps)

\* and one whose first measure has no page reference
EdRoots ==
    {EdRoot(b, last) : b \in Boundaries, last \in MeasureNumbers}
    \cup {Root(<<>>,
               <<Mei(401, "section", Folio(1), <<Mei(301, "measure", "1", <<>>)>>)>>,
               NoApps)}

Pb(i) == Mei(500 + i, "pb", Folio(i), <<>>)

\* a diplomatic context: a page break before the first measure of each page
DiplRoot(b) ==
    Root(<<>>,
         <<Mei(400, "section", NoneV,
               Flat([i \in 1..Len(b) |-> <<Pb(i), RefMeasure(i, b[i])>>]))>>,
         NoApps)

\* the diplomatic contexts: those, and some with the page reference inside
\* editorial branches, after another node, or under an element that is no
\* measure
DiplRoots ==
    LET sec(kids) == Root(<<>>, <<Mei(400, "section", NoneV, kids)>>, NoApps)
        other == Mei(600, "sb", NoneV, <<>>)
        orig(kids) == Mei(601, "orig", NoneV, kids)
        reg(kids) == Mei(602, "reg", NoneV, kids)
        choice(kids) == Mei(603, "choice", NoneV, kids)
    IN  {DiplRoot(b) : b \in Boundaries} \cup
        {sec(<<Pb(1), other, RefMeasure(1, "1")>>),
         sec(<<choice(<<orig(<<Pb(3), RefMeasure(3, "1")>>),
                        reg(<<Pb(1), RefMeasure(1, "1")>>)>>),
               Pb(2), RefMeasure(2, "2")>>),
         sec(<<choice(<<reg(<<Pb(1), Pb(2), RefMeasure(1, "1")>>)>>)>>),
         sec(<<choice(<<orig(<<Pb(1), RefMeasure(1, "1")>>)>>)>>),
         sec(<<choice(<<reg(<<Pb(1), RefMeasure(1, "1")>>)>>)>>),
         sec(<<Pb(1), Mei(604, "staff", "1", <<RefDir(ToString(1))>>)>>)}

Name(level, notation) == <<level, "_", notation>>

Stem(level, notation) == <<"work", "_", "n1", "_", "1r", "_", "enc", "_", level, "_", notation>>

Wrapper(stem, notationtype, dom) ==
    [filename |-> stem, notationtype |-> notationtype, dom |-> dom]

\* the context wrappers a transform may be handed
ContextWrappers ==
    {Wrapper(Stem("ed", "GLT"), Name("ed", "GLT"), r) : r \in EdRoots}
    \cup {Wrapper(Stem("dipl", "GLT"), Name("dipl", "GLT"), r) : r \in DiplRoots}

\* ------------------------------------------------------------- the state
VARIABLES
    disk,          \* the directory: file stem -> the document stored in the file
    filepath,      \* the stem of the active file
    workpackage,   \* [scripts, commitResult, label]
    params,        \* the keyword arguments handed to every step
    today,         \* date.today()
    pc,            \* where the run stands
    idx,           \* position in scripts_list of the next step
    active_dom,    \* the Python variable active_dom: a wrapper (kind "dict")
                   \* or what a step returned (kind "tuple")
    context_doms,  \* the wrappers of the sibling files
    tree,          \* the parsed tree of the active file, mutated in place
    given,         \* the tree as it was handed to the step that ran last
    exc,           \* the exception that left execute_workpackage, or NoExc
    raised_by,     \* the exception as the step raised it, before any handler
    invoked,       \* the steps called so far, in call order
    ret,           \* what the alignment transform left behind: at, info, made
    writes,        \* the stems opened for writing so far, in order
    args,          \* the command line of coordinator.py as argparse parsed it
    workpackages_list,  \* the workpackages of the JSON file main loads
    dic_add_args,  \* what check_addargs_against_json returned, values typed
    code,          \* what main returned: <<>> while it has not returned
    elem,          \* the subtree handed to dur_length
    ignore,        \* the ignore list handed to dur_length
    totaldur,      \* what dur_length returned, as a fraction
    cli,           \* the command line of find_files_wrapper.py as parsed
    filepaths,     \* the file names root.walk() yields, in its order
    filetypes,     \* the file types to include
    exclude_files, \* the ids to leave out
    position,      \* the place in filepaths of the next file
    summary_message,  \* the summary lines gathered so far
    error_message,    \* the error lines gathered so far
    attempted,     \* the files coordinator.main was called for, in order
    log,           \* the files printed as not processed, with the exception
    summary        \* what was written to the step summary, in order

\* the state of coordinator.main outside execute_workpackage
driver == <<args, workpackages_list, dic_add_args, code>>

\* the state of a call of utils.dur_length
durs == <<elem, ignore, totaldur>>

\* the state of a run of find_files_wrapper.py
batch == <<cli, filepaths, filetypes, exclude_files, position, summary_message,
           error_message, attempted, log, summary>>

\* what execute_workpackage and the transforms never touch
outside == <<driver, durs, batch>>

vars == <<disk, filepath, workpackage, params, today, pc, idx, active_dom,
          context_doms, tree, given, exc, raised_by, invoked, ret, writes, outside>>

\* execute_workpackage called directly: no command line
NoDriver ==
    /\ args = [filepath |-> <<>>, workpackage_id |-> "", addargs |-> <<>>]
    /\ workpackages_list = <<>> /\ dic_add_args = <<>> /\ code = <<>>

\* no call of dur_length
NoDurs == elem = <<>> /\ ignore = <<>> /\ totaldur = <<>>

\* no run of find_files_wrapper.py
NoBatch ==
    /\ cli = <<>> /\ filepaths = <<>> /\ filetypes = <<>> /\ exclude_files = <<>>
    /\ position = 1 /\ summary_message = <<>> /\ error_message = <<>>
    /\ attempted = <<>> /\ log = <<>> /\ summary = <<>>

NoRet == [at |-> "none", info |-> <<>>, made |-> <<>>]

DictDom(stem, notationtype) ==
    [kind |-> "dict", filename |-> stem, notationtype |-> notationtype, message |-> ""]

\* the wrapper a step reads through active_dom: its "dom" is the tree
Deref(dom, root) == Wrapper(dom.filename, dom.notationtype, root)

\* ----------------------------------- the alignment transform called directly
AlignInit ==
    /\ disk = <<>> /\ filepath = Stem("ed", "CMN")
    /\ workpackage = [scripts |-> <<"script_collection.add_section_foldir_from_context_to_ed">>,
                      commitResult |-> FALSE, label |-> "align"]
    /\ today = 1 /\ pc = "call" /\ idx = 1
    /\ exc = NoExc /\ raised_by = NoExc /\ invoked = <<>> /\ ret = NoRet /\ writes = <<>>
    /\ \/ /\ tree \in
                {ActiveRoot(kinds, shape, nsurf) :
                    kinds \in UNION {[1..k -> MeasureNumbers \cup {"sb"}] :
                                        k \in 0..MaxChildren},
                    shape \in Shapes, nsurf \in 0..MaxSurfaces}
          /\ active_dom = DictDom(filepath, Name("ed", "CMN"))
          /\ \E c \in ContextWrappers :
                /\ context_doms = <<c>>
                /\ params = [getElemFrom |-> c.notationtype]
       \/ /\ tree \in {ActiveRoot(<<"1", "2">>, shape, 2) : shape \in Shapes}
          /\ \E nt \in {Name(l, n) : l \in EditionLevels, n \in {"GLT", "CMN"}}
                        \cup {<<"CMN">>} :
                active_dom = DictDom(filepath, nt)
          /\ context_doms \in
                {<<>>} \cup {<<c>> : c \in ContextWrappers}
                \cup {<<c, d>> : c \in {Wrapper(Stem("dipl", "CMN"), Name("dipl", "CMN"),
                                                 DiplRoot(<<"2">>))},
                                 d \in {Wrapper(Stem("dipl", "GLT"), Name("dipl", "GLT"),
                                                 DiplRoot(<<"1", "2">>))}}
          /\ params \in {[getElemFrom |-> Name("dipl", "GLT")]}
       \* measures that hold notes, aligned with a diplomatic context of two
       \* pages
       \/ /\ tree \in {Root(<<Surface(1), Surface(2)>>,
                            <<Mei(100, "section", NoneV,
                                  <<Sounding(1, "1", first), Sounding(2, "2", <<"4">>)>>)>>,
                            NoApps) :
                          first \in {<<"4">>, <<"2">>, <<"4", "4">>}}
          /\ active_dom = DictDom(filepath, Name("ed", "CMN"))
          /\ context_doms = <<Wrapper(Stem("dipl", "GLT"), Name("dipl", "GLT"),
                                      DiplRoot(<<"1", "2">>))>>
          /\ params = [getElemFrom |-> Name("dipl", "GLT")]
    /\ given = tree
    /\ NoDriver /\ NoDurs /\ NoBatch

AlignCall ==
    /\ pc = "call"
    /\ LET r == add_section_foldir_from_context_to_ed(
                    Deref(active_dom, tree), context_doms, params.getElemFrom)
       IN  /\ tree' = r.dom
           /\ exc' = r.exc
           /\ raised_by' = r.exc
           /\ ret' = [at |-> r.at, info |-> r.info, made |-> r.made]
           /\ pc' = IF r.exc = NoExc THEN "returned" ELSE "raised"
           /\ active_dom' = IF r.exc = NoExc
                            THEN [active_dom EXCEPT !.kind = "tuple"]
                            ELSE active_dom
    /\ invoked' = Append(invoked, workpackage.scripts[1])
    /\ UNCHANGED <<disk, filepath, workpackage, params, today, idx, context_doms,
                   given, writes>>
    /\ UNCHANGED outside

SpecAlign == AlignInit /\ [][AlignCall]_vars

\* --------------------------------------------- coordinator: the transforms
\* a step identifier is module "." function, as a sequence of its parts
Script(module, func) == <<module, ".", func>>

\* script.rpartition("."): the parts before and after the last "."
rpartition(script) ==
    LET dots == {i \in 1..Len(script) : script[i] = "."}
        k == CHOOSE i \in dots : \A j \in dots : j <= i
    IN  IF dots = {} THEN <<<<>>, <<>>, script>>
        ELSE <<SubSeq(script, 1, k - 1), <<".">>, SubSeq(script, k + 1, Len(script))>>

\* the modules importlib can import and the functions getattr finds in them
Modules ==
    [script_collection |-> {"add_sbs_every_n", "remove_all_sbs", "_template_function",
                            "add_section_foldir_from_context_to_ed"},
     testing_scripts |-> {"runtime_error", "_template_function", "raises"}]

\* the keyword arguments a function requires besides active_dom, context_doms
Required(func) ==
    CASE func = "add_sbs_every_n" -> <<"sbInterval">>
      [] func = "add_section_foldir_from_context_to_ed" -> <<"getElemFrom">>
      [] OTHER -> <<>>

\* the exceptions the body of testing_scripts.raises ends with: the user
\* error of runtime_error, and TypeErrors with and without the word missing
UserError == Exc("RuntimeError", <<"This", "is", "a", "user", "error!">>, <<>>)

StepErrors ==
    {UserError,
     Exc("TypeError", <<"f()", "missing", "1", "required", "positional", "argument:", "'x'">>,
         <<"x">>),
     Exc("TypeError", <<"unsupported", "operand", "type(s)">>, <<"int">>)}

TupleIndexError ==
    Exc("TypeError", <<"tuple", "indices", "must", "be", "integers", "or", "slices,",
                       "not", "str">>, <<>>)

\* current_func(active_dom, context_doms, **params), coordinator.py line 54:
\* what the call raises (NoExc if it returns) and the tree it leaves.
\* Python binds the arguments first; every transform then reads
\* active_dom["dom"] or active_dom["notationtype"], which a tuple refuses.
CallStep(func, dom, root, contexts, kwargs, raising) ==
    LET missing == SelectSeq(Required(func), LAMBDA a : a \notin DOMAIN kwargs)
        same == [exc |-> NoExc, dom |-> root, at |-> "none", info |-> <<>>, made |-> <<>>]
        plain(r) == [same EXCEPT !.exc = r.exc, !.dom = r.dom]
    IN  IF missing # <<>>
        THEN [same EXCEPT !.exc =
                Exc("TypeError", <<func \o "()", "missing", "required", "positional",
                                   "argument">>, missing)]
        ELSE IF dom.kind = "tuple" THEN [same EXCEPT !.exc = TupleIndexError]
        ELSE CASE func = "_template_function" -> same
               [] func = "runtime_error" -> [same EXCEPT !.exc = UserError]
               [] func = "raises" -> [same EXCEPT !.exc = raising]
               [] func = "add_sbs_every_n" ->
                     plain(add_sbs_every_n(Deref(dom, root), kwargs.sbInterval))
               [] func = "remove_all_sbs" -> plain(remove_all_sbs(Deref(dom, root)))
               [] func = "add_section_foldir_from_context_to_ed" ->
                     add_section_foldir_from_context_to_ed(
                         Deref(dom, root), contexts, kwargs.getElemFrom)

\* the except clause of lines 55-66: the exception that leaves
\* execute_workpackage when the call raised e
Handle(e, func_name) ==
    IF e.type = "TypeError" /\ InSeq("missing", e.words)
    THEN Exc("KeyError",
             <<"The", "additional", "arguments", "passed", "are", "incomplete,",
               func_name, "requires:">>, e.quoted)
    ELSE e

\* ------------------------------------------- coordinator: execute_workpackage
BadStem == <<"notes", "_", "draft">>

\* the contents of the active file: with an application of another tool in
\* its appInfo, or without an appInfo element
ActiveContents ==
    LET OldApp == [ns |-> "mei", name |-> "Verovio", isodate |-> NoneV,
                   startdate |-> NoneV, enddate |-> NoneV, ps |-> <<>>]
    IN  {Root(<<Surface(1), Surface(2)>>, ScoreOf(Leaves(<<"1", "sb", "2">>), "flat"), a) :
            a \in {<<<<OldApp>>>>, <<>>}}

\* the lists workpackage["scripts"] may hold
ScriptLists ==
    LET StepNames ==
            {Script("script_collection", f) :
                f \in {"add_sbs_every_n", "_template_function",
                       "add_section_foldir_from_context_to_ed"}}
            \cup {Script("testing_scripts", f) : f \in {"runtime_error", "raises"}}
            \cup {Script("script_collection", "no_such_function"),
                  Script("no_such_module", "f")}
    IN  UNION {[1..k -> StepNames] : k \in 0..MaxSteps}

Init ==
    /\ filepath \in {Stem("ed", "CMN"), BadStem}
    \* the sibling files; work_n1_1r_enc_ed_GLT_old is a conforming name
    \* with more text after it
    /\ \E dir \in {{}, {Stem("dipl", "GLT")}, {Stem("dipl", "GLT"), Stem("ed", "GLT")},
                   {Stem("ed", "GLT"), Stem("dipl", "CMN")}, {Stem("dipl", "GLT"), BadStem},
                   {Stem("dipl", "GLT"), Stem("ed", "GLT") \o <<"_", "old">>}},
          content \in ActiveContents :
          disk = [f \in dir \cup {filepath} |->
                     IF f = filepath THEN content
                     ELSE IF f = Stem("dipl", "GLT") THEN DiplRoot(<<"1", "2">>)
                     ELSE IF f = Stem("ed", "GLT") THEN EdRoot(<<"1", "2">>, "2")
                     ELSE DiplRoot(<<"1">>)]
    /\ \E scripts \in ScriptLists, commit \in BOOLEAN :
          workpackage = [scripts |-> scripts, commitResult |-> commit, label |-> "wp"]
    /\ params \in {[sbInterval |-> 2, getElemFrom |-> Name("dipl", "GLT")],
                   [getElemFrom |-> Name("dipl", "GLT")]}
    /\ today = 1 /\ pc = "start" /\ idx = 1
    /\ active_dom = DictDom(filepath, <<>>)
    /\ context_doms = <<>>
    /\ tree = disk[filepath] /\ given = tree
    /\ exc = NoExc /\ raised_by = NoExc /\ invoked = <<>> /\ ret = NoRet /\ writes = <<>>
    /\ NoDriver /\ NoDurs /\ NoBatch

\* lines 34-45: parse the active file, parse and wrap every sibling, in any
\* of the orders in which directory.glob can list them, import the modules
\* the scripts name
Load ==
    /\ pc = "start"
    /\ LET mine == parse_and_wrap_dom(filepath, disk[filepath])
           siblings == DOMAIN disk \ {filepath}
           bad == {f \in siblings : determine_notationtype(f).exc # NoExc}
           modules == {rpartition(workpackage.scripts[i])[1] :
                          i \in 1..Len(workpackage.scripts)}
           unknown == {m \in modules : m \notin {<<k>> : k \in DOMAIN Modules}}
           failure == IF mine.exc # NoExc THEN mine.exc
                      ELSE IF bad # {}
                      THEN determine_notationtype(CHOOSE f \in bad : TRUE).exc
                      ELSE IF unknown # {}
                      THEN Exc("NameError", <<"Unknown", "module">>, <<>>)
                      ELSE NoExc
       IN  /\ exc' = failure
           /\ pc' = IF failure = NoExc THEN "loop" ELSE "raised"
           /\ active_dom' = IF mine.exc = NoExc
                            THEN DictDom(filepath, mine.val.notationtype)
                            ELSE active_dom
           /\ IF mine.exc = NoExc /\ bad = {}
              THEN \E o \in {o \in [1..Cardinality(siblings) -> siblings] :
                             \A i, j \in 1..Cardinality(siblings) :
                                 i # j => o[i] # o[j]} :
                      context_doms' =
                          [i \in 1..Len(o) |-> parse_and_wrap_dom(o[i], disk[o[i]]).val]
              ELSE context_doms' = context_doms
    /\ UNCHANGED <<disk, filepath, workpackage, params, today, idx, tree, given,
                   raised_by, invoked, ret, writes>>
    /\ UNCHANGED outside

\* where the loop stands after a call that raised e (NoExc: it returned):
\* an exception leaves the loop, a return moves on to the next script
StepOutcome_KeepsGoing(e, i) == [pc |-> "loop", idx |-> i + 1]

StepOutcome(e, i) ==
    IF e = NoExc THEN [pc |-> "loop", idx |-> i + 1] ELSE [pc |-> "raised", idx |-> i]

\* lines 49-51: where the loop stands after getattr found no function of
\* that name: the AttributeError leaves the loop (UnknownOutcome_Skips: the
\* loop goes on with the next script)
UnknownOutcome_Skips(i) == [pc |-> "loop", idx |-> i + 1]

UnknownOutcome(i) == [pc |-> "raised", idx |-> i]

\* one turn of the loop of lines 47-66
Step ==
    /\ pc = "loop" /\ idx <= Len(workpackage.scripts)
    /\ LET script == workpackage.scripts[idx]
           module_path == rpartition(script)[1][1]
           func_name == rpartition(script)[3][1]
       IN  IF func_name \notin Modules[module_path]
           THEN /\ exc' = Exc("AttributeError",
                              <<"Unknown", "script", "or", "wrong", "module", "path">>, <<>>)
                /\ pc' = UnknownOutcome(idx).pc
                /\ idx' = UnknownOutcome(idx).idx
                /\ UNCHANGED <<active_dom, tree, given, raised_by, invoked, ret>>
           ELSE \E raising \in StepErrors :
                LET r == CallStep(func_name, active_dom, tree, context_doms, params, raising)
                IN  /\ invoked' = Append(invoked, script)
                    /\ given' = tree
                    /\ tree' = r.dom
                    /\ ret' = [at |-> r.at, info |-> r.info, made |-> r.made]
                    /\ raised_by' = r.exc
                    /\ exc' = Handle(r.exc, func_name)
                    /\ active_dom' = IF r.exc = NoExc
                                     THEN [active_dom EXCEPT !.kind = "tuple"]
                                     ELSE active_dom
                    /\ pc' = StepOutcome(r.exc, idx).pc
                    /\ idx' = StepOutcome(r.exc, idx).idx
    /\ UNCHANGED <<disk, filepath, workpackage, params, today, context_doms, writes>>
    /\ UNCHANGED outside

\* the loop has run through the whole list
LoopDone_AlsoAfterRaise == pc \in {"loop", "raised"}

LoopDone == pc = "loop" /\ idx > Len(workpackage.scripts)

\* lines 68-71: the provenance record and the write
\* (Commit_EveryFile: the document written over every file of the directory)
Commit_EveryFile ==
    /\ LoopDone
    /\ IF ~workpackage.commitResult
       THEN /\ pc' = "done"
            /\ UNCHANGED <<disk, tree, exc, writes>>
       ELSE IF active_dom.kind = "tuple"
       THEN /\ pc' = "raised" /\ exc' = TupleIndexError
            /\ UNCHANGED <<disk, tree, writes>>
       ELSE LET r == edit_appInfo(tree, workpackage.label, today)
            IN  /\ tree' = r.dom
                /\ exc' = r.exc
                /\ IF r.exc = NoExc
                   THEN /\ pc' = "done"
                        /\ disk' =
                              [f \in DOMAIN disk |->
                                  [r.dom EXCEPT
                                      !.score = Reparse(@),
                                      !.surfaces = Reparse(@),
                                      !.appInfo =
                                          [a \in 1..Len(@) |->
                                              [i \in 1..Len(@[a]) |->
                                                  [@[a][i] EXCEPT !.ns = "mei"]]]]]
                        /\ writes' = Append(writes, filepath)
                   ELSE /\ pc' = "raised"
                        /\ UNCHANGED <<disk, writes>>
    /\ UNCHANGED <<filepath, workpackage, params, today, idx, active_dom, context_doms,
                   given, raised_by, invoked, ret>>
    /\ UNCHANGED outside

Commit ==
    /\ LoopDone
    /\ IF ~workpackage.commitResult
       THEN /\ pc' = "done"
            /\ UNCHANGED <<disk, tree, exc, writes>>
       ELSE IF active_dom.kind = "tuple"
       THEN /\ pc' = "raised" /\ exc' = TupleIndexError
            /\ UNCHANGED <<disk, tree, writes>>
       ELSE LET r == edit_appInfo(tree, workpackage.label, today)
            IN  /\ tree' = r.dom
                /\ exc' = r.exc
                /\ IF r.exc = NoExc
                   THEN /\ pc' = "done"
                        /\ disk' =
                              [disk EXCEPT ![filepath] =
                                  [r.dom EXCEPT
                                      !.score = Reparse(@),
                                      !.surfaces = Reparse(@),
                                      !.appInfo =
                                          [a \in 1..Len(@) |->
                                              [i \in 1..Len(@[a]) |->
                                                  [@[a][i] EXCEPT !.ns = "mei"]]]]]
                        /\ writes' = Append(writes, filepath)
                   ELSE /\ pc' = "raised"
                        /\ UNCHANGED <<disk, writes>>
    /\ UNCHANGED <<filepath, workpackage, params, today, idx, active_dom, context_doms,
                   given, raised_by, invoked, ret>>
    /\ UNCHANGED outside

Next == Load \/ Step \/ Commit

Spec == Init /\ [][Next]_vars

\* ----------------------------------------------- properties: coordinator
Scripts == workpackage.scripts

\* the function the step called last is named by
LastFunc == rpartition(invoked[Len(invoked)])[3][1]

\* C1: the active file is written only after every step has returned and
\* only when commitResult is true; once a step has raised, no file has been
\* opened for writing and the directory is as it was
C1_WriteOnlyAfterAllSteps ==
    /\ [](raised_by # NoExc => writes = <<>>)
    /\ [][(disk' # disk \/ writes' # writes) =>
            /\ workpackage.commitResult
            /\ pc = "loop" /\ idx = Len(Scripts) + 1
            /\ Len(invoked) = Len(Scripts)
            /\ raised_by = NoExc /\ exc = NoExc]_vars

C1_Witness ==
    /\ pc = "raised" /\ raised_by # NoExc
    /\ workpackage.commitResult
    /\ Len(Scripts) = 2 /\ Len(invoked) = 2
    /\ tree # disk[filepath]
    /\ writes = <<>>

\* C2: a workpackage with at least one step, all of whose steps return, and
\* commitResult true ends committed: the record with the label is in the
\* document and the document is written (stated as claimed; the code reads
\* active_dom["dom"] from the tuple the last step returned)
C2_AllStepsReturnedCommits ==
    (/\ pc \in {"done", "raised"}
     /\ Len(Scripts) >= 1 /\ Len(invoked) = Len(Scripts) /\ raised_by = NoExc
     /\ workpackage.commitResult /\ tree.appInfo # <<>>)
    => /\ pc = "done"
       /\ writes = <<filepath>>
       /\ \E i \in 1..Len(disk[filepath].appInfo[1]) :
             InSeq(workpackage.label, disk[filepath].appInfo[1][i].ps)

\* C3: every step after the first is handed the wrapper of the previous
\* step's result (stated as claimed; the code hands on the whole tuple)
C3_StepReceivesWrapper ==
    (pc = "loop" /\ 1 < idx /\ idx <= Len(Scripts)) => active_dom.kind = "dict"

\* C4: the steps are invoked in the order of the scripts list, each position
\* once, and after a step has raised no further step is invoked
C4_StepsInListOrder ==
    /\ [](/\ Len(invoked) <= Len(Scripts)
          /\ invoked = SubSeq(Scripts, 1, Len(invoked)))
    /\ [][Len(invoked') <= Len(invoked) + 1]_vars
    /\ [][(raised_by # NoExc \/ pc = "raised") => invoked' = invoked]_vars

C4_Witness ==
    /\ pc = "raised" /\ raised_by # NoExc
    /\ Len(Scripts) = 2 /\ Len(invoked) = 1

\* C5: an exception raised in the body of a step leaves execute_workpackage
\* with the type and message it was raised with (stated as claimed; the
\* code turns a TypeError whose message holds "missing" into a KeyError);
\* the call that ran last bound its arguments, so what it raised came from
\* the body of the step
C5_ExceptionUnmodified ==
    (/\ pc = "raised" /\ raised_by # NoExc /\ invoked # <<>>
     /\ \A i \in 1..Len(Required(LastFunc)) : Required(LastFunc)[i] \in DOMAIN params)
    => exc = raised_by

\* C9: the wrapper's notationtype names the edition level and the notation
\* of the file, so that the alignment run on ed_CMN with getElemFrom
\* dipl_GLT gets past the notation-type and context checks when that sibling
\* exists and raises at the context check, the document untouched, when it
\* does not (stated as claimed; determine_notationtype returns group 3 of
\* the match, the notation alone)
C9_NotationTypeNamesLevel ==
    LET last(stem) == CHOOSE h \in MatchPositions(stem) :
                          \A g \in MatchPositions(stem) : g <= h
        FullName(stem) == SubSeq(stem, last(stem) + 3, last(stem) + 5)
        AlignRan ==
            /\ invoked # <<>> /\ LastFunc = "add_section_foldir_from_context_to_ed"
            /\ ret.at # "none"
    IN
    /\ pc = "loop" =>
          /\ active_dom.notationtype = FullName(filepath)
          /\ \A i \in 1..Len(context_doms) :
                context_doms[i].notationtype = FullName(context_doms[i].filename)
    /\ (AlignRan /\ Stem("dipl", "GLT") \in DOMAIN disk) =>
          ret.at \notin {"notationtype", "context"}
    /\ (AlignRan /\ Stem("dipl", "GLT") \notin DOMAIN disk) =>
          (ret.at = "context" /\ tree = given)

\* ------------------------------------------------- properties: alignment
\* the section the walk of lines 434-456 starts from: the one section of the
\* document that was handed in, after lines 384-395
SectionAtWalk == Descendants(UnwrapPhase(given.score), "section")[1].node

\* the sections made by SubElement(score, "section"), as the score holds them
NewSections ==
    LET new(x) == x.ns = "" /\ x.tag = "section"
    IN  SelectSeq(tree.score, new)

\* C6: if the number of surfaces differs from the number of SectionInfo
\* entries, the transform raises and the document is exactly as handed in
\* (stated as claimed; the code removes an expansion and unwraps nested
\* sections before it compares the counts)
C6_CountMismatchLeavesDocument ==
    (pc # "call" /\ ret.at = "count") => (pc = "raised" /\ tree = given)

\* C7: if the walk ends before the last boundary was matched, the transform
\* raises and the document is exactly as handed in (stated as claimed; the
\* code raises after the sections were attached and the children moved)
C7_MisalignmentLeavesDocument ==
    (pc # "call" /\ ret.at = "misaligned") => (pc = "raised" /\ tree = given)

C10_OneSectionPerEntry ==
    (pc = "returned" /\ ret.at = "ok") =>
        /\ Len(NewSections) = Len(ret.info)
        /\ \A i \in 1..Len(NewSections) :
              /\ NewSections[i].n = ret.info[i][2]
              /\ NewSections[i].facs = "#" \o given.surfaces[i].id
        /\ \A i \in 1..Len(tree.score) : tree.score[i].uid # SectionAtWalk.uid
        /\ Descendants(tree.score, "section") = <<>>

C10_Witness ==
    /\ pc = "returned" /\ ret.at = "ok"
    /\ Len(ret.info) = 2
    /\ NewSections[1].n = Folio(1) /\ NewSections[2].n = Folio(2)
    /\ NewSections[2].facs = "#s2"

\* C11: when the transform succeeds, the first measure of the i-th new
\* section is the measure numbered as the i-th entry says, it holds exactly
\* one added page reference with the entry's folio label and timestamp, and
\* no other measure holds one (stated as claimed; the code appends every
\* child that comes before the first boundary to section_info[-1], the last
\* new section); MeasuresOf are the measures among the children of a new
\* section, AddedDirs the page references of a measure that add_foldir made
C11_FirstMeasureIsBoundary ==
    LET isMeasure(k) == k.tag = "measure"
        MeasuresOf(section) == SelectSeq(section.kids, isMeasure)
        added(k) == k.ns = "" /\ k.tag = "dir" /\ k.type = "ref"
        AddedDirs(measure) == SelectSeq(measure.kids, added)
    IN
    (pc = "returned" /\ ret.at = "ok") =>
        \A i \in 1..Len(NewSections) :
            /\ MeasuresOf(NewSections[i]) # <<>>
            /\ MeasuresOf(NewSections[i])[1].n = ret.info[i][1]
            /\ AddedDirs(MeasuresOf(NewSections[i])[1]) =
                   <<El(0, "", "dir", NoneV, NoneV, ret.info[i][3], "ref", NoneV, NoneV,
                        <<El(0, "", "rend", NoneV, NoneV, NoneV, NoneV, NoneV,
                             "fol. " \o ret.info[i][2], <<>>)>>)>>
            /\ \A j \in 2..Len(MeasuresOf(NewSections[i])) :
                   AddedDirs(MeasuresOf(NewSections[i])[j]) = <<>>

\* ----------------------------------------------------- coordinator: main
\* Python values whose type matters: an int, and a str as its characters
IntValue(i) == [t |-> "int", v |-> i]

StrValue(chars) == [t |-> "str", v |-> chars]

JSON_TYPE_TO_PYTHON_TYPE == [Number |-> "int", String |-> "str"]

\* the number a run of decimal digits writes
RECURSIVE DigitsValue(_, _)
DigitsValue(chars, acc) ==
    IF chars = <<>> THEN acc
    ELSE DigitsValue(Tail(chars),
                     10 * acc + (CHOOSE d \in 0..9 : ToString(d) = chars[1]))

\* str.strip() of blanks
RECURSIVE Strip(_)
Strip(chars) ==
    IF chars # <<>> /\ chars[1] = " " THEN Strip(Tail(chars))
    ELSE IF chars # <<>> /\ chars[Len(chars)] = " "
    THEN Strip(SubSeq(chars, 1, Len(chars) - 1))
    ELSE chars

\* int(s) for a str s: blanks around the number and a sign are accepted;
\* <<>> is ValueError
PyInt(chars) ==
    LET body == Strip(chars)
        signed == body # <<>> /\ body[1] \in {"-", "+"}
        sign == IF body # <<>> /\ body[1] = "-" THEN -1 ELSE 1
        digits == IF signed THEN Tail(body) ELSE body
        Digits == {"0", "1", "2", "3", "4", "5", "6", "7", "8", "9"}
    IN  IF digits = <<>> \/ \E i \in 1..Len(digits) : digits[i] \notin Digits THEN <<>>
        ELSE <<sign * DigitsValue(digits, 0)>>

\* "".join(parts)
RECURSIVE Join(_)
Join(parts) == IF parts = <<>> THEN "" ELSE parts[1] \o Join(Tail(parts))

\* d[key] = value on a dict d
SetItem(d, key, value) ==
    [k \in DOMAIN d \cup {key} |-> IF k = key THEN value ELSE d[k]]

\* item.split("=", 1) for an item that holds "=": the key and the value
SplitItem(item) ==
    LET eq == {i \in 1..Len(item) : item[i] = "="}
        first == CHOOSE i \in eq : \A j \in eq : i <= j
    IN  [key |-> Join(SubSeq(item, 1, first - 1)),
         value |-> SubSeq(item, first + 1, Len(item))]

\* addargs_to_dic: the key=value items as a dict, later items overriding
\* earlier ones, items without "=" left out
RECURSIVE addargs_to_dic_from(_, _, _)
addargs_to_dic_from(addargs, i, kwargs) ==
    IF i > Len(addargs) THEN kwargs
    ELSE IF InSeq("=", addargs[i])
    THEN addargs_to_dic_from(addargs, i + 1,
             SetItem(kwargs, SplitItem(addargs[i]).key, SplitItem(addargs[i]).value))
    ELSE addargs_to_dic_from(addargs, i + 1, kwargs)

addargs_to_dic(addargs) == addargs_to_dic_from(addargs, 1, <<>>)

\* one entry of workpackage["params"]: type and default are <<>> when the
\* JSON entry has no such key
Param(key, type, default) == [key |-> key, type |-> type, default |-> default]

\* what a turn of the loop leaves: the exception, or the value under <<>>
Raises(e) == [exc |-> e, val |-> <<>>]

Returns(v) == [exc |-> NoExc, val |-> <<v>>]

\* JSON_TYPE_TO_PYTHON_TYPE[value["type"]](addargs_dic[key]), lines 186-193;
\* a type the table does not hold is a KeyError that the except lets through
\* (Coerce_NoCast: every supplied value handed on as the text it is)
Coerce_NoCast(type, chars, key) == Returns(StrValue(chars))

Coerce(type, chars, key) ==
    IF type \notin DOMAIN JSON_TYPE_TO_PYTHON_TYPE
    THEN Raises(Exc("KeyError", <<type>>, <<>>))
    ELSE IF JSON_TYPE_TO_PYTHON_TYPE[type] = "str" THEN Returns(StrValue(chars))
    ELSE IF PyInt(chars) = <<>>
    THEN Raises(Exc("ValueError", <<"User", "input", "for", key, "isn't", "of", "type", type>>,
                    <<>>))
    ELSE Returns(IntValue(PyInt(chars)[1]))

\* one turn of the loop of lines 182-200
ParamValue(entry, addargs_dic) ==
    IF entry.key \in DOMAIN addargs_dic
    THEN IF entry.type = <<>>
         THEN Raises(Exc("KeyError", <<"Parameter", entry.key, "misses", "type">>, <<>>))
         ELSE Coerce(entry.type[1], addargs_dic[entry.key], entry.key)
    ELSE IF entry.default # <<>> THEN Returns(entry.default[1])
    ELSE Raises(Exc("ValueError", <<"Missing", "additional", "argument", entry.key>>, <<>>))

\* check_addargs_against_json, the loop over params.items() from entry i on
RECURSIVE check_addargs_from(_, _, _, _)
RECURSIVE AfterParam(_, _, _, _, _)
AfterParam(schema, addargs_dic, i, return_addargs, r) ==
    IF r.exc # NoExc THEN [exc |-> r.exc, val |-> <<>>]
    ELSE check_addargs_from(schema, addargs_dic, i + 1,
                            SetItem(return_addargs, schema[i].key, r.val[1]))

check_addargs_from(schema, addargs_dic, i, return_addargs) ==
    IF i > Len(schema) THEN [exc |-> NoExc, val |-> return_addargs]
    ELSE AfterParam(schema, addargs_dic, i, return_addargs,
                    ParamValue(schema[i], addargs_dic))

check_addargs_against_json(addargs_dic, wp) ==
    check_addargs_from(wp.params, addargs_dic, 1, <<>>)

\* the key=value items a user may pass after -a
AddargLists ==
    LET Items == {<<"n", "=", "5">>, <<"n", "=", "a">>, <<"n", "=", " ", "7">>,
                  <<"s", "=", "a", "=", "b">>, <<"x", "=", "1">>, <<"v">>}
    IN  UNION {[1..k -> Items] : k \in 0..MaxItems}

\* the params a workpackage of the JSON file may declare, in file order
Schemas ==
    {<<>>,
     <<Param("n", <<"Number">>, <<>>)>>,
     <<Param("n", <<"Number">>, <<IntValue(5)>>)>>,
     <<Param("n", <<"Number">>, <<StrValue(<<"5">>)>>)>>,
     <<Param("n", <<>>, <<IntValue(5)>>)>>,
     <<Param("n", <<"Boolean">>, <<>>)>>,
     <<Param("s", <<"String">>, <<>>)>>,
     <<Param("n", <<"Number">>, <<IntValue(5)>>),
       Param("s", <<"String">>, <<StrValue(<<"x">>)>>)>>,
     <<Param("s", <<"String">>, <<>>), Param("n", <<"Number">>, <<>>)>>}

\* the workpackages the JSON file may hold
MainWorkpackages ==
    {[id |-> "wp", scripts |-> s, commitResult |-> c, label |-> "wp", params |-> p] :
        s \in {<<>>, <<Script("script_collection", "_template_function")>>,
               <<Script("testing_scripts", "runtime_error")>>},
        c \in BOOLEAN, p \in Schemas}

\* the local variable workpackage before the loop of lines 143-146 binds it
Unbound == [id |-> "", scripts |-> <<>>, commitResult |-> FALSE, label |-> "",
            params |-> <<>>]

MainInit ==
    /\ args \in {[filepath |-> Stem("ed", "CMN"), workpackage_id |-> w, addargs |-> a] :
                    w \in {"wp", "other"},
                    a \in {<<>>} \cup {<<l>> : l \in AddargLists}}
    /\ workpackages_list \in {<<wp>> : wp \in MainWorkpackages}
    /\ filepath = args.filepath
    /\ disk \in {<<>>, [f \in {filepath} |->
                          Root(<<Surface(1)>>, ScoreOf(Leaves(<<"1">>), "flat"), <<>>)]}
    /\ workpackage = Unbound
    /\ params = <<>> /\ dic_add_args = <<>> /\ code = <<>>
    /\ today = 1 /\ pc = "main" /\ idx = 1
    /\ active_dom = DictDom(filepath, <<>>)
    /\ context_doms = <<>>
    /\ tree = IF filepath \in DOMAIN disk THEN disk[filepath] ELSE Root(<<>>, <<>>, <<>>)
    /\ given = tree
    /\ exc = NoExc /\ raised_by = NoExc /\ invoked = <<>> /\ ret = NoRet /\ writes = <<>>
    /\ NoDurs /\ NoBatch

\* line 150, once a candidate matched: the additional arguments are
\* parsed and checked; args.addargs is <<>> (None) when -a was not given
MainCheck(candidate) ==
    IF args.addargs = <<>>
    THEN Raises(Exc("TypeError", <<"'NoneType'", "object", "is", "not", "iterable">>, <<>>))
    ELSE check_addargs_against_json(addargs_to_dic(args.addargs[1]), candidate)

\* lines 137-150 of main: the workpackage is looked up by its id and the
\* additional arguments are checked against it; with no candidate of that
\* id the name workpackage is read unbound
MainArgs ==
    /\ pc = "main"
    /\ LET hit(c) == c.id = args.workpackage_id
           candidates == SelectSeq(workpackages_list, hit)
       IN  IF candidates = <<>>
           THEN /\ exc' = Exc("UnboundLocalError",
                              <<"cannot", "access", "local", "variable">>, <<"workpackage">>)
                /\ pc' = "raised"
                /\ UNCHANGED <<workpackage, dic_add_args, params>>
           ELSE /\ workpackage' = candidates[1]
                /\ exc' = MainCheck(candidates[1]).exc
                /\ IF MainCheck(candidates[1]).exc = NoExc
                   THEN /\ pc' = "checked"
                        /\ dic_add_args' = MainCheck(candidates[1]).val
                        \* the keyword arguments as the steps get them
                        /\ params' = [k \in DOMAIN MainCheck(candidates[1]).val |->
                                         MainCheck(candidates[1]).val[k].v]
                   ELSE /\ pc' = "raised"
                        /\ UNCHANGED <<dic_add_args, params>>
    /\ UNCHANGED <<disk, filepath, today, idx, active_dom, context_doms, tree, given,
                   raised_by, invoked, ret, writes, args, workpackages_list, code, durs, batch>>

\* lines 153-160: a missing file ends main with 2, else execute_workpackage
\* is entered
MainFile ==
    /\ pc = "checked"
    /\ IF filepath \in DOMAIN disk
       THEN pc' = "start" /\ code' = code
       ELSE pc' = "returned" /\ code' = <<2>>
    /\ UNCHANGED <<disk, filepath, workpackage, params, today, idx, active_dom,
                   context_doms, tree, given, exc, raised_by, invoked, ret, writes,
                   args, workpackages_list, dic_add_args, durs, batch>>

\* lines 160-162: execute_workpackage returned; an exception it raised
\* leaves main, the try of lines 159-165 being commented out
MainReturn ==
    /\ pc = "done"
    /\ pc' = "returned" /\ code' = <<0>>
    /\ UNCHANGED <<disk, filepath, workpackage, params, today, idx, active_dom,
                   context_doms, tree, given, exc, raised_by, invoked, ret, writes,
                   args, workpackages_list, dic_add_args, durs, batch>>

MainNext == MainArgs \/ MainFile \/ Load \/ Step \/ Commit \/ MainReturn

SpecMain == MainInit /\ [][MainNext]_vars

\* ------------------------------------------------------ properties: main
\* what the user supplied, as a dict
Supplied == addargs_to_dic(args.addargs[1])

\* C12: the returned map has exactly the declared names as keys; a supplied
\* value is coerced to the declared type (Number to the integer the text
\* denotes, String unchanged), an unsupplied parameter takes its default,
\* and undeclared names are not passed on; a supplied Number that does not
\* denote an integer, or an unsupplied parameter without default, makes the
\* function raise instead of returning (checked once main has bound a
\* workpackage and was given additional arguments)
C12_MapOfDeclaredParameters ==
    LET Declared == {workpackage.params[i].key : i \in 1..Len(workpackage.params)}
        ArgsChecked == pc # "main" /\ workpackage # Unbound /\ args.addargs # <<>>
    IN
    /\ pc = "checked" =>
          /\ DOMAIN dic_add_args = Declared
          /\ DOMAIN params = Declared
          /\ \A i \in 1..Len(workpackage.params) :
                LET p == workpackage.params[i]
                IN  IF p.key \in DOMAIN Supplied
                    THEN /\ p.type \in {<<"Number">>, <<"String">>}
                         /\ p.type = <<"String">> =>
                               dic_add_args[p.key] = [t |-> "str", v |-> Supplied[p.key]]
                         /\ p.type = <<"Number">> =>
                               /\ dic_add_args[p.key].t = "int"
                               /\ PyInt(Supplied[p.key]) = <<dic_add_args[p.key].v>>
                    ELSE /\ p.default # <<>>
                         /\ dic_add_args[p.key] = p.default[1]
    /\ (ArgsChecked /\ \E i \in 1..Len(workpackage.params) :
            LET p == workpackage.params[i]
            IN  \/ p.key \in DOMAIN Supplied /\ p.type = <<"Number">>
                   /\ PyInt(Supplied[p.key]) = <<>>
                \/ p.key \notin DOMAIN Supplied /\ p.default = <<>>)
       => (pc = "raised" /\ invoked = <<>> /\ dic_add_args = <<>> /\ code = <<>>)

C12_Witness ==
    /\ pc = "checked"
    /\ Supplied = [n |-> <<" ", "7">>, x |-> <<"1">>]
    /\ dic_add_args = [n |-> IntValue(7), s |-> StrValue(<<"x">>)]

\* C13: every value of the returned map has the type its entry declares,
\* integer for Number and string for String, also when it was taken from a
\* default (stated as claimed; the code returns a default as the JSON file
\* holds it)
C13_ValuesHaveDeclaredType ==
    pc = "checked" =>
        \A i \in 1..Len(workpackage.params) :
            LET p == workpackage.params[i]
            IN  /\ p.type \in {<<"Number">>, <<"String">>}
                /\ dic_add_args[p.key].t = JSON_TYPE_TO_PYTHON_TYPE[p.type[1]]

\* ------------------------------------- properties: unknown identifiers
\* the module part of the identifier is no module importlib can import
UnknownModule(script) == rpartition(script)[1] \notin {<<k>> : k \in DOMAIN Modules}

\* the module is known and getattr finds no function of that name in it
UnknownFunction(script) ==
    /\ ~UnknownModule(script)
    /\ rpartition(script)[3][1] \notin Modules[rpartition(script)[1][1]]

\* the positions of the scripts that name an unknown function
UnknownFunctions == {i \in 1..Len(Scripts) : UnknownFunction(Scripts[i])}

FirstUnknownFunction == CHOOSE i \in UnknownFunctions : \A j \in UnknownFunctions : i <= j

\* C14: with an unknown module anywhere in the list the run raises (NameError,
\* Unknown module) before any step has run; with an unknown function at
\* position k the run raises, at most the k-1 steps before it have run, and
\* it is refused with AttributeError exactly when all k-1 steps before it have
\* returned; in both cases nothing is written (FilesLoad: every file of the
\* directory is named as the convention asks)
C14_UnknownIdentifierRejected ==
    LET FilesLoad == \A f \in DOMAIN disk : f # BadStem
    IN
    /\ (\E i \in 1..Len(Scripts) : UnknownModule(Scripts[i])) =>
          /\ invoked = <<>> /\ writes = <<>> /\ pc \in {"start", "raised"}
          /\ (pc = "raised" /\ FilesLoad) =>
                (exc.type = "NameError" /\ exc.words = <<"Unknown", "module">>)
    /\ (UnknownFunctions # {} /\ \A i \in 1..Len(Scripts) : ~UnknownModule(Scripts[i])) =>
          /\ Len(invoked) < FirstUnknownFunction
          /\ writes = <<>> /\ pc \in {"start", "loop", "raised"}
          /\ idx <= FirstUnknownFunction
          /\ (pc = "raised" /\ exc.type = "AttributeError") =>
                (Len(invoked) = FirstUnknownFunction - 1 /\ idx = FirstUnknownFunction)
          /\ (pc = "loop" /\ idx = FirstUnknownFunction) => ENABLED Step
          /\ (pc = "raised" /\ FilesLoad /\ raised_by = NoExc) =>
                (exc.type = "AttributeError" /\ Len(invoked) = FirstUnknownFunction - 1)

C14_Witness ==
    /\ pc = "raised" /\ exc.type = "AttributeError"
    /\ Len(Scripts) = 2 /\ UnknownFunction(Scripts[2])
    /\ invoked = <<Script("script_collection", "add_sbs_every_n")>>
    /\ tree # disk[filepath]
    /\ writes = <<>> /\ workpackage.commitResult

\* ------------------------------- properties: the last measure numbers
\* the context document the transform selects, <<>> if none
Selected == SelectContext(context_doms, params.getElemFrom)

\* both documents have a last measure with a number, and the numbers differ
LastNumbersDiffer ==
    /\ Selected # <<>>
    /\ get_last_mnum(given).exc = NoExc
    /\ get_last_mnum(Selected[1].dom).exc = NoExc
    /\ get_last_mnum(given).val # get_last_mnum(Selected[1].dom).val

\* C15: with an edition-style context whose last measure number differs
\* from the active document's the transform raises and the score holds no
\* new section; with a diplomatic context it never raises for that reason
C15_LastNumberComparedForEdOnly ==
    /\ (pc # "call" /\ LastNumbersDiffer /\ InSeq("ed", Selected[1].notationtype)) =>
          (pc = "raised" /\ NewSections = <<>> /\ ret.made = <<>>)
    /\ (pc # "call" /\ Selected # <<>> /\ InSeq("dipl", Selected[1].notationtype)) =>
          exc.words # <<"has", "diffrent", "number", "of", "measures", "from">>

\* the alignment completed with a dipl context although the numbers differ;
\* the dipl document here has its one page reference inside reg
C15_Witness ==
    /\ pc = "returned" /\ ret.at = "ok" /\ LastNumbersDiffer
    /\ InSeq("dipl", Selected[1].notationtype)
    /\ Selected[1].dom.score[1].kids[1].tag = "choice"
    /\ NewSections # <<>>

\* ------------------------------------------------------ utils: dur_length
\* an element as dur_length reads it: its local name, its dur and dots
\* attributes (NoneV when absent) and its children
DurEl(tag, dur, dots, kids) == [tag |-> tag, dur |-> dur, dots |-> dots, kids |-> kids]

\* the numbers dur_length computes with, as fractions in lowest terms; the
\* durations drawn below are powers of two, for which the floating point
\* operations of lines 95-96 are exact
RECURSIVE GCD(_, _)
GCD(a, b) == IF b = 0 THEN a ELSE GCD(b, a % b)

Rat(num, den) ==
    [num |-> num \div GCD(IF num < 0 THEN -num ELSE num, den),
     den |-> den \div GCD(IF num < 0 THEN -num ELSE num, den)]

RatAdd(a, b) == Rat(a.num * b.den + b.num * a.den, a.den * b.den)

RECURSIVE Pow2(_)
Pow2(k) == IF k = 0 THEN 1 ELSE 2 * Pow2(k - 1)

DefaultIgnore == <<"sic", "orig">>

\* line 96: 2 / dur - 1 / (dur * 2 ** dots)
\* (DurValue_NoDots: the dots left out of the account)
DurValue_NoDots(dur, dots) == Rat(1, dur)

DurValue(dur, dots) ==
    LET a == Rat(2, dur)
        b == Rat(1, dur * Pow2(dots))
    IN  Rat(a.num * b.den - b.num * a.den, a.den * b.den)

\* lines 95-96 for a child with a dur attribute: float() refuses a dur that
\* is no number, and a dur of 0 divides by zero
DurOf(child) ==
    IF ~IsNumeral(child.dur)
    THEN Raises(Exc("ValueError", <<"could", "not", "convert", "string", "to", "float">>,
                    <<child.dur>>))
    ELSE IF IntOf(child.dur) = 0
    THEN Raises(Exc("ZeroDivisionError", <<"float", "division", "by", "zero">>, <<>>))
    ELSE Returns(DurValue(IntOf(child.dur),
                          IF child.dots = NoneV THEN 0 ELSE IntOf(child.dots)))

\* dur_length: the loop of lines 91-98 over the children from child i on;
\* the call of line 98 hands no ignore list on, so below the first level
\* the default list is the one in force
RECURSIVE DurLoop(_, _, _, _)
RECURSIVE DurAfter(_, _, _, _, _)
DurAfter(kids, i, ign, total, r) ==
    IF r.exc # NoExc THEN r
    ELSE DurLoop(kids, i + 1, ign, RatAdd(total, r.val[1]))

DurLoop(kids, i, ign, total) ==
    IF i > Len(kids) THEN Returns(total)
    ELSE IF InSeq(kids[i].tag, ign) THEN DurLoop(kids, i + 1, ign, total)
    ELSE IF kids[i].dur # NoneV THEN DurAfter(kids, i, ign, total, DurOf(kids[i]))
    ELSE DurAfter(kids, i, ign, total, DurLoop(kids[i].kids, 1, DefaultIgnore, Rat(0, 1)))

dur_length(element, ign) == DurLoop(element.kids, 1, ign, Rat(0, 1))

\* the children a measure-like container may have
Note(dur, dots) == DurEl("note", dur, dots, <<>>)

Choice(first, a, second, b) ==
    DurEl("choice", NoneV, NoneV,
          <<DurEl(first, NoneV, NoneV, <<a>>), DurEl(second, NoneV, NoneV, <<b>>)>>)

\* the subtrees handed to dur_length
DurTrees ==
    LET DurChildren ==
            {Note(d, k) : d \in {"2", "4"}, k \in {NoneV, "1", "2"}}
            \cup {Note("breve", NoneV),
                  DurEl("chord", "4", NoneV, <<Note("4", NoneV), Note("4", NoneV)>>),
                  DurEl("beam", NoneV, NoneV, <<Note("8", NoneV), Note("8", "1")>>),
                  Choice("sic", Note("4", NoneV), "corr", Note("2", NoneV)),
                  Choice("orig", Note("2", NoneV), "reg", Note("2", "1")),
                  DurEl("orig", NoneV, NoneV, <<Note("4", NoneV)>>),
                  DurEl("layer", NoneV, NoneV,
                        <<Choice("orig", Note("4", NoneV), "reg", Note("8", NoneV))>>)}
    IN  {DurEl("measure", NoneV, NoneV, kids) :
            kids \in UNION {[1..k -> DurChildren] : k \in 0..MaxNotes}}

DurInit ==
    /\ elem \in DurTrees /\ ignore \in {DefaultIgnore, <<>>, <<"reg">>}
    /\ totaldur = <<>>
    /\ given = elem /\ pc = "call" /\ exc = NoExc
    /\ disk = <<>> /\ filepath = <<>> /\ workpackage = Unbound /\ params = <<>>
    /\ today = 1 /\ idx = 1 /\ active_dom = DictDom(<<>>, <<>>) /\ context_doms = <<>>
    /\ tree = Root(<<>>, <<>>, <<>>)
    /\ raised_by = NoExc /\ invoked = <<>> /\ ret = NoRet /\ writes = <<>>
    /\ NoDriver /\ NoBatch

\* dur_length(elem, ignore): it builds a number and changes no element
DurCall ==
    /\ pc = "call"
    /\ exc' = dur_length(elem, ignore).exc
    /\ totaldur' = dur_length(elem, ignore).val
    /\ pc' = IF dur_length(elem, ignore).exc = NoExc THEN "returned" ELSE "raised"
    /\ UNCHANGED <<disk, filepath, workpackage, params, today, idx, active_dom,
                   context_doms, tree, given, raised_by, invoked, ret, writes, driver,
                   elem, ignore, batch>>

SpecDur == DurInit /\ [][DurCall]_vars

\* ------------------------------------------------ properties: dur_length
\* the elements that count when the list L is in force at every depth: the
\* elements with a dur that lie under no element of L and under no other
\* element with a dur, in document order
RECURSIVE CountedUnder(_, _)
CountedUnder(kids, L) ==
    IF kids = <<>> THEN <<>>
    ELSE (IF InSeq(kids[1].tag, L) THEN <<>>
          ELSE IF kids[1].dur # NoneV THEN <<kids[1]>>
          ELSE CountedUnder(kids[1].kids, L))
         \o CountedUnder(Tail(kids), L)

\* the sum of (1/d) * (2 - 2^-k) over the elements, as a fraction
RECURSIVE SumDotted(_)
SumDotted(leaves) ==
    IF leaves = <<>> THEN Rat(0, 1)
    ELSE LET d == IntOf(leaves[1].dur)
             k == IF leaves[1].dots = NoneV THEN 0 ELSE IntOf(leaves[1].dots)
         IN  RatAdd(Rat(Pow2(k + 1) - 1, d * Pow2(k)), SumDotted(Tail(leaves)))

AllNumbers(leaves) == \A i \in 1..Len(leaves) : IsNumeral(leaves[i].dur)

C17_IgnoreListAtEveryDepth ==
    (pc = "returned" /\ AllNumbers(CountedUnder(elem.kids, ignore))) =>
        totaldur = <<SumDotted(CountedUnder(elem.kids, ignore))>>

\* ------------------------------------------------ properties: file names
\* C18: determine_notationtype raises for every file name of the directory
\* that is not exactly of the conventional form, and with such a file in
\* the directory the run raises before any step has run and writes nothing
\* (stated as claimed; the pattern of line 124 is matched from the start of
\* the stem only, so text after the notation suffix is accepted). Conforms:
\* the stem is <work>_n<N>_<folio-range>_enc_<dipl|ed>_<GLT|CMN|FLT|ILT>
\* and nothing else
C18_NonConformingNameRejected ==
    LET Conforms(stem) ==
            \E level \in EditionLevels, notation \in {"GLT", "FLT", "ILT", "CMN"} :
                stem = Stem(level, notation)
    IN
    /\ \A f \in DOMAIN disk :
          ~Conforms(f) => determine_notationtype(f).exc.type = "NameError"
    /\ ((\E f \in DOMAIN disk : ~Conforms(f)) /\ pc # "start") =>
          (pc = "raised" /\ exc.type = "NameError" /\ invoked = <<>> /\ writes = <<>>)

\* ------------------------------------------------ properties: exit codes
\* C20: main returns 2 whenever the target file does not exist, 1 when
\* processing the file fails, and 0 when the workpackage completes (stated
\* as claimed; the try of lines 159-165 is commented out, so a failure
\* leaves main as an exception, and the arguments are checked before the
\* file is looked for)
C20_ExitCodes ==
    pc \in {"returned", "raised"} =>
        code = IF filepath \notin DOMAIN disk THEN <<2>>
               ELSE IF pc = "raised" THEN <<1>>
               ELSE <<0>>

\* ------------------------------------------------------ find_files_wrapper
\* format_filetypes: the file types an optional -ft value stands for; <<>>
\* is None
format_filetypes(filetype) ==
    IF filetype = <<>> THEN <<"dipl_CMN", "ed_CMN", "dipl_GLT", "ed_GLT">>
    ELSE CASE filetype[1] = "dipl" -> <<"dipl_CMN", "ed_CMN">>
           [] filetype[1] = "ed" -> <<"ed_CMN", "ed_GLT">>
           [] filetype[1] = "CMN" -> <<"dipl_CMN", "ed_CMN">>
           [] filetype[1] = "GLT" -> <<"dipl_GLT", "ed_GLT">>
           [] OTHER -> filetype

\* format_exclude_files: the ids as given, ValueError unless all are digits
format_exclude_files(exclude) ==
    IF exclude = <<>> THEN [exc |-> NoExc, val |-> <<>>]
    ELSE IF \E i \in 1..Len(exclude[1]) : ~IsNumeral(exclude[1][i])
    THEN [exc |-> Exc("ValueError", <<>>, <<>>), val |-> <<>>]
    ELSE [exc |-> NoExc, val |-> exclude[1]]

\* re.match(r".+n(\d+)_[0-9rv-]+_enc_((ed|dipl)_(CMN|GLT))\.mei", name):
\* the positions of the "n" at which the pattern matches; 1r and 1r-2v are
\* the folio ranges of the names drawn
FileMatches(name) ==
    {i \in 2..(Len(name) - 10) :
        /\ name[i] = "n" /\ IsNumeral(name[i + 1]) /\ name[i + 2] = "_"
        /\ name[i + 3] \in {"1r", "1r-2v"} /\ name[i + 4] = "_" /\ name[i + 5] = "enc"
        /\ name[i + 6] = "_" /\ name[i + 7] \in {"ed", "dipl"} /\ name[i + 8] = "_"
        /\ name[i + 9] \in {"CMN", "GLT"} /\ name[i + 10] = ".mei"}

\* get_file_info: <<group(2), group(1)>> of the match, <<>> for (None, None)
get_file_info(name) ==
    LET i == CHOOSE h \in FileMatches(name) : \A g \in FileMatches(name) : g <= h
    IN  IF FileMatches(name) = {} THEN <<>>
        ELSE <<name[i + 7] \o "_" \o name[i + 9], name[i + 1]>>

\* coordinator.main(workpackage_id=..., filepath=..., addargs=...): main is
\* defined without parameters (coordinator.py line 130), so binding the
\* keyword arguments fails before its body runs
CallMain(kwargs) ==
    Raises(Exc("TypeError", <<"main()", "got", "an", "unexpected", "keyword", "argument">>,
               <<"workpackage_id">>))

SUMMARY_HEADER_TABLE ==
    "| Ok? | file_id | dipl_GLT | dipl_CMN | ed_GLT | ed_CMN |\n| --- | --- | --- | --- | --- |"

\* utils.write_to_github_summary is imported at line 6 and defined in no
\* file; taken as appending the message to the step summary
write_to_github_summary(written, message) == Append(written, message)

\* the files of the caller repository
BatchName(id, level, notation) ==
    <<"work", "_", "n", id, "_", "1r", "_", "enc", "_", level, "_", notation, ".mei">>

\* the lists of file names root.walk() may yield
FileLists ==
    LET BatchNames ==
            {BatchName("1", "ed", "CMN"), BatchName("2", "ed", "CMN"),
             BatchName("1", "dipl", "GLT"), BatchName("1", "ed", "FLT"),
             <<"notes", ".mei">>}
    IN  {l \in UNION {[1..k -> BatchNames] : k \in 0..MaxFiles} :
            \A i, j \in 1..Len(l) : i # j => l[i] # l[j]}

BatchInit ==
    /\ cli \in {[filetype |-> ft, exclude |-> ex, workpackage_id |-> "wp",
                 addargs |-> <<"{}">>] :
                   ft \in {<<>>, <<"ed">>, <<"dipl">>, <<"ed_CMN">>},
                   ex \in {<<>>, <<<<"1">>>>, <<<<"x">>>>}}
    /\ filepaths \in FileLists
    /\ filetypes = <<>> /\ exclude_files = <<>> /\ position = 1
    /\ summary_message = <<>> /\ error_message = <<>>
    /\ attempted = <<>> /\ log = <<>> /\ summary = <<>>
    /\ workpackages_list = <<[id |-> "wp", scripts |-> <<>>, commitResult |-> FALSE,
                              label |-> "wp", params |-> <<>>]>>
    /\ args = [filepath |-> <<>>, workpackage_id |-> "", addargs |-> <<>>]
    /\ dic_add_args = <<>> /\ code = <<>>
    /\ pc = "batch" /\ exc = NoExc
    /\ disk = <<>> /\ filepath = <<>> /\ workpackage = Unbound /\ params = <<>>
    /\ today = 1 /\ idx = 1 /\ active_dom = DictDom(<<>>, <<>>) /\ context_doms = <<>>
    /\ tree = Root(<<>>, <<>>, <<>>) /\ given = tree
    /\ raised_by = NoExc /\ invoked = <<>> /\ ret = NoRet /\ writes = <<>>
    /\ NoDurs

\* lines 93-102: the arguments are parsed; parser.error ends the process
BatchStart ==
    /\ pc = "batch"
    /\ filetypes' = format_filetypes(cli.filetype)
    /\ IF format_exclude_files(cli.exclude).exc # NoExc
       THEN /\ pc' = "exited"
            /\ exc' = Exc("SystemExit", <<"Must", "all", "be", "numbers", "greater", "than", "0">>,
                          <<>>)
            /\ UNCHANGED exclude_files
       ELSE /\ pc' = "walk"
            /\ exclude_files' = format_exclude_files(cli.exclude).val
            /\ UNCHANGED exc
    /\ UNCHANGED <<disk, filepath, workpackage, params, today, idx, active_dom,
                   context_doms, tree, given, raised_by, invoked, ret, writes, driver, durs,
                   cli, filepaths, position, summary_message, error_message, attempted,
                   log, summary>>

\* lines 116-126 for an eligible file: the call, and what is kept of it
BatchCall(name, r) ==
    /\ attempted' = Append(attempted, name)
    /\ IF r.exc # NoExc
       THEN /\ log' = Append(log, [file |-> name, exc |-> r.exc])
            /\ UNCHANGED <<summary_message, error_message>>
       ELSE /\ summary_message' = summary_message \o r.val[1][1]
            /\ error_message' = error_message \o r.val[1][2]
            /\ UNCHANGED log

\* one turn of the loop of lines 108-126
BatchFile ==
    /\ pc = "walk" /\ position <= Len(filepaths)
    /\ position' = position + 1
    /\ IF \/ get_file_info(filepaths[position]) = <<>>
          \/ ~InSeq(get_file_info(filepaths[position])[1], filetypes)
          \/ InSeq(get_file_info(filepaths[position])[2], exclude_files)
       THEN UNCHANGED <<attempted, log, summary_message, error_message>>
       ELSE BatchCall(filepaths[position],
                      CallMain([workpackage_id |-> cli.workpackage_id,
                                filepath |-> filepaths[position],
                                addargs |-> cli.addargs]))
    /\ UNCHANGED <<disk, filepath, workpackage, params, today, pc, idx, active_dom,
                   context_doms, tree, given, exc, raised_by, invoked, ret, writes, driver,
                   durs, cli, filepaths, filetypes, exclude_files, summary>>

\* lines 128-130: the summary is written after the walk
BatchSummary ==
    /\ pc = "walk" /\ position > Len(filepaths)
    /\ summary' = write_to_github_summary(summary,
                      <<SUMMARY_HEADER_TABLE>> \o summary_message \o <<"\n\nErrors:\n">>
                      \o error_message)
    /\ pc' = "finished"
    /\ UNCHANGED <<disk, filepath, workpackage, params, today, idx, active_dom,
                   context_doms, tree, given, exc, raised_by, invoked, ret, writes, driver,
                   durs, cli, filepaths, filetypes, exclude_files, position,
                   summary_message, error_message, attempted, log>>

BatchNext == BatchStart \/ BatchFile \/ BatchSummary

SpecBatch == BatchInit /\ [][BatchNext]_vars

\* -------------------------------------------- properties: the batch driver
\* C19: every eligible file is attempted in turn whatever the coordinator
\* raised for the files before it, the summary is written once, after the
\* last file, and an eligible file whose run does not fail is not reported
\* as an exception (stated as claimed; the call of lines 118-122 passes
\* keyword arguments to a main that takes none, so it raises for every file).
\* Eligible: the file passes the three tests of lines 109-115. RunCompletes:
\* nothing in a run of the workpackage on a file of this directory fails:
\* the workpackage is found, asks for no parameter, has no script and does
\* not commit, and every file of the directory, taken without its
\* extension, is named as determine_notationtype asks
C19_BatchContinuesAndAggregates ==
    LET Eligible(name) ==
            /\ get_file_info(name) # <<>>
            /\ InSeq(get_file_info(name)[1], format_filetypes(cli.filetype))
            /\ ~InSeq(get_file_info(name)[2], exclude_files)
        RunCompletes ==
            /\ \E i \in 1..Len(workpackages_list) :
                  /\ workpackages_list[i].id = cli.workpackage_id
                  /\ workpackages_list[i].scripts = <<>>
                  /\ workpackages_list[i].params = <<>>
                  /\ ~workpackages_list[i].commitResult
            /\ \A i \in 1..Len(filepaths) :
                  determine_notationtype(
                      SubSeq(filepaths[i], 1, Len(filepaths[i]) - 1)).exc = NoExc
    IN
    /\ pc = "finished" => attempted = SelectSeq(filepaths, Eligible)
    /\ summary = IF pc = "finished"
                 THEN <<<<SUMMARY_HEADER_TABLE>> \o summary_message \o <<"\n\nErrors:\n">>
                        \o error_message>>
                 ELSE <<>>
    /\ RunCompletes => log = <<>>

\* --------------------------------------- properties: the page timestamps
\* the subtree as dur_length reads it: local names, dur and dots attributes
RECURSIVE AsDurEl(_)
AsDurEl(node) ==
    DurEl(node.tag,
          IF "dur" \in DOMAIN node THEN node.dur ELSE NoneV,
          IF "dots" \in DOMAIN node THEN node.dots ELSE NoneV,
          [i \in 1..Len(node.kids) |-> AsDurEl(node.kids[i])])

\* C21: when the alignment succeeds from a diplomatic context, the page
\* reference on the first measure of each new section after the first has
\* as timestamp the accumulated duration of the measures of the section
\* before it, counted in quarter notes, plus one (stated as claimed; the
\* code copies the timestamp of the context document's page reference)
C21_TimestampIsAccumulatedDuration ==
    (pc = "returned" /\ ret.at = "ok" /\ InSeq("dipl", Selected[1].notationtype)) =>
        \A i \in 2..Len(NewSections) :
            LET isRef(k) == k.tag = "dir" /\ k.type = "ref"
                holds(k) == k.tag = "measure" /\ SelectSeq(k.kids, isRef) # <<>>
                first == SelectSeq(NewSections[i].kids, holds)[1]
                total == dur_length(AsDurEl(NewSections[i - 1]), DefaultIgnore).val[1]
            IN  /\ SelectSeq(NewSections[i].kids, holds) # <<>>
                /\ total.den \in {1, 2, 4}
                /\ SelectSeq(first.kids, isRef)[1].tstamp =
                       ToString((4 * total.num) \div total.den + 1)

\* C22: when the transform succeeds, the children of the new sections, taken
\* in section order, are the children of the original section in their
\* original order, also those that come before the first boundary measure
\* (stated as claimed; the code starts with current_section = -1, so what
\* comes before the first boundary is appended to section_info[-1], the
\* last new section)
C22_WalkKeepsChildOrder ==
    (pc = "returned" /\ ret.at = "ok") =>
        LET moved == Flat([i \in 1..Len(NewSections) |-> NewSections[i].kids])
        IN  [j \in 1..Len(moved) |-> moved[j].uid]
                = [j \in 1..Len(SectionAtWalk.kids) |-> SectionAtWalk.kids[j].uid]

\* C23: in the diplomatic gathering, a measure with a page reference that
\* lies outside orig and reg takes its folio label from the nearest page
\* break before it at the same nesting depth, also when other nodes of that
\* depth stand between the two (stated as claimed; the code looks at the one
\* element that precedes the measure at that depth and raises when it is no
\* page break). Checked on context documents all of whose page references
\* are of that kind.
C23_NearestPrecedingPageBreak ==
    LET all == Iter(Selected[1].dom.score)
        hasRef(e) == RefDirs(e.node) # <<>>
        refs == SelectSeq(all, hasRef)
        pos(e) == CHOOSE i \in 1..Len(all) : all[i].path = e.path
        before(e) == {i \in 1..Len(all) :
                        /\ i < pos(e) /\ get_depth(all[i]) = get_depth(e)
                        /\ IsTag(all[i].node, "pb")}
        nearest(e) == all[CHOOSE i \in before(e) : \A j \in before(e) : j <= i].node
        plain(e) == /\ IsTag(e.node, "measure")
                    /\ ~InSeq("orig", e.anc) /\ ~InSeq("reg", e.anc)
                    /\ before(e) # {}
    IN  (/\ pc # "call" /\ ret.at \notin {"notationtype", "context", "sections"}
         /\ InSeq("dipl", Selected[1].notationtype)
         /\ refs # <<>> /\ \A k \in 1..Len(refs) : plain(refs[k]))
        => ret.info = [k \in 1..Len(refs) |->
                          <<refs[k].node.n, nearest(refs[k]).n,
                            RefDirs(refs[k].node)[1].tstamp>>]

\* ------------------------------------- properties: the diplomatic evidence
\* C24: when the entries are gathered from a diplomatic context, the elements
\* that hold a page reference are taken in document order: without any the
\* call raises; one that is no measure, or a measure under reg (and not under
\* orig) whose parent has not exactly one pb child, makes the call raise;
\* otherwise a measure under orig gives no entry, a measure under reg gives
\* the label of the pb child of its parent, and the entries follow document
\* order (measures under neither branch with the pb directly before them)
C24_DiplomaticEvidence ==
    LET all == Iter(Selected[1].dom.score)
        hasRef(e) == RefDirs(e.node) # <<>>
        refs == SelectSeq(all, hasRef)
        isPb(k) == IsTag(k, "pb")
        local(e) == SelectSeq(e.parent.kids, isPb)
        under(e, branch) == InSeq(branch, e.anc)
        counted(e) == ~under(e, "orig")
        kept == SelectSeq(refs, counted)
        pos(e) == CHOOSE i \in 1..Len(all) : all[i].path = e.path
        level(e) == {i \in 1..Len(all) : i < pos(e) /\ get_depth(all[i]) = get_depth(e)}
        direct(e) == all[CHOOSE i \in level(e) : \A j \in level(e) : j <= i].node
        label(e) == IF under(e, "reg") THEN local(e)[1].n ELSE direct(e).n
        refused(e) == \/ ~IsTag(e.node, "measure")
                      \/ counted(e) /\ under(e, "reg") /\ Len(local(e)) # 1
        fine(e) == \/ ~counted(e)
                   \/ under(e, "reg")
                   \/ level(e) # {} /\ IsTag(direct(e), "pb")
        raisedHere == /\ pc = "raised" /\ ret.at = "gather"
                      /\ exc.type = "RuntimeError" /\ ret.info = <<>>
    IN  (/\ pc # "call" /\ ret.at \notin {"notationtype", "context", "sections"}
         /\ InSeq("dipl", Selected[1].notationtype))
        => /\ refs = <<>> => raisedHere
           /\ (\E k \in 1..Len(refs) : refused(refs[k])) => raisedHere
           /\ (/\ refs # <<>>
               /\ \A k \in 1..Len(refs) : ~refused(refs[k]) /\ fine(refs[k]))
              => /\ ret.at # "gather"
                 /\ ret.info = [k \in 1..Len(kept) |->
                                   <<kept[k].node.n, label(kept[k]),
                                     RefDirs(kept[k].node)[1].tstamp>>]

\* a diplomatic context with one page reference under orig and one under
\* reg was gathered: two entries, none for the measure under orig
C24_Witness ==
    LET all == Iter(Selected[1].dom.score)
        hasRef(e) == RefDirs(e.node) # <<>>
        refs == SelectSeq(all, hasRef)
    IN  /\ pc # "call" /\ ret.at \notin {"notationtype", "context", "sections", "gather"}
        /\ Selected # <<>> /\ InSeq("dipl", Selected[1].notationtype)
        /\ \E k \in 1..Len(refs) : InSeq("orig", refs[k].anc)
        /\ \E k \in 1..Len(refs) : InSeq("reg", refs[k].anc)
        /\ Len(refs) = 3 /\ Len(ret.info) = 2

\* ------------------------------------- script_collection: the finis mark
\* guess_string_width, lines 535-567, for a text of one line: the summed
\* weights of its characters.  A string value cannot be taken apart here, so
\* the texts the calls below are made with are spelled out.
guess_string_width(text) ==
    LET chars == CASE text = "Finis" -> <<"F", "i", "n", "i", "s">>
                   [] text = "FINIS" -> <<"F", "I", "N", "I", "S">>
                   [] text = "m" -> <<"m">>
                   [] OTHER -> <<>>
        tenths(c) == IF c \in {"M", "W", "m", "@"} THEN 15
                     ELSE IF c \in {"i", "l", "j", "|", "!", ":", ".", "t", "I", "[", "]"}
                     THEN 4
                     ELSE IF c \in {"F", "N", "S"} THEN 12
                     ELSE 10
        RECURSIVE width(_)
        width(i) == IF i = 0 THEN 0 ELSE width(i - 1) + tenths(chars[i])
    IN  Rat(width(Len(chars)), 10)

\* lines 608-618: the whole-note total in timestamp units.  meterSig is <<>>
\* for None; without one the total is taken in quarters and doubled until it
\* is a whole number, ten times at most
\* (FinisTstamp_AlwaysQuarters: the unit of the meterSig never read)
FinisTstamp_AlwaysQuarters(total, meterSig) == Returns(Rat(total.num * 4, total.den))

FinisTstamp(total, meterSig) ==
    LET unit == PyInt(<<IF "unit" \in DOMAIN meterSig[1] THEN meterSig[1].unit ELSE "4">>)
        RECURSIVE doubled(_, _)
        doubled(t, k) ==
            IF k = 10
            THEN Raises(Exc("RuntimeError", <<"has", "problematic", "tstamp", "calculation">>,
                            <<>>))
            ELSE IF t.den = 1 THEN Returns(t)
            ELSE doubled(Rat(2 * t.num, t.den), k + 1)
    IN  IF meterSig = <<>> THEN doubled(Rat(total.num * 4, total.den), 0)
        ELSE IF unit = <<>>
        THEN Raises(Exc("ValueError", <<"invalid", "literal", "for", "int">>, <<>>))
        ELSE Returns(Rat(total.num * unit[1], total.den))

\* add_finis_to_last_measure: what it raises, the document it leaves and the
\* message it returns.  The new dir and its rend are made with bare tags;
\* besides the attributes of every element the dir carries staff, place
\* and ho.  str() of the float tstamp + 1 writes the whole part, a point and
\* the decimals, "0" when there are none.
add_finis_to_last_measure(active, finisText) ==
    LET root == active.dom
        meterSig == Descendants(root.score, "meterSig")
        dirs == Descendants(root.score, "dir")
        isFinis(e) == e.node.type = "finis"
        measures == Descendants(root.score, "measure")
        measure == measures[Len(measures)]
        layers == Descendants(measure.node.kids, "layer")
        total == dur_length(AsDurEl(layers[1].node), DefaultIgnore)
        tstamp == FinisTstamp(total.val[1],
                              IF meterSig = <<>> THEN <<>> ELSE <<meterSig[1].node>>)
        RECURSIVE decimals(_, _)
        decimals(x, den) ==
            IF x = 0 THEN ""
            ELSE ToString((10 * x) \div den) \o decimals((10 * x) % den, den)
        str(r) == ToString(r.num \div r.den) \o "." \o
                  (IF r.num % r.den = 0 THEN "0" ELSE decimals(r.num % r.den, r.den))
        \* round(width * 2.5): to the nearest whole number, a tie to the even one
        width == guess_string_width(finisText)
        twice == (width.num * 5) \div width.den
        exact == (width.num * 5) % width.den = 0
        rounded == IF twice % 2 = 0 THEN twice \div 2
                   ELSE IF ~exact THEN twice \div 2 + 1
                   ELSE IF (twice \div 2) % 2 = 0 THEN twice \div 2
                   ELSE twice \div 2 + 1
        edCMN == \E i \in 1..(Len(active.notationtype) - 2) :
                    SubSeq(active.notationtype, i, i + 2) = <<"ed", "_", "CMN">>
        rend == El(0, "", "rend", NoneV, NoneV, NoneV, NoneV, NoneV, finisText, <<>>)
        dir == [uid |-> 0, ns |-> "", tag |-> "dir", n |-> NoneV, facs |-> NoneV,
                tstamp |-> str(RatAdd(tstamp.val[1], Rat(1, 1))), type |-> "finis",
                id |-> NoneV, text |-> NoneV, kids |-> <<rend>>,
                staff |-> IF edCMN THEN "2" ELSE "1",
                place |-> IF edCMN THEN "above" ELSE "within",
                ho |-> ToString(rounded + 5) \o "vu"]
        RECURSIVE attach(_, _)
        attach(forest, path) ==
            IF Len(path) = 1 THEN [forest EXCEPT ![path[1]].kids = Append(@, dir)]
            ELSE [forest EXCEPT ![path[1]].kids = attach(@, Tail(path))]
        left(e) == [exc |-> e, dom |-> root, message |-> ""]
    IN  IF finisText = ""
        THEN [exc |-> NoExc, dom |-> root,
              message |-> "No finis added because none given"]
        ELSE IF SelectSeq(dirs, isFinis) # <<>>
        THEN left(Exc("RuntimeError", <<"Finis", "already", "there">>, <<>>))
        ELSE IF measures = <<>>
        THEN left(Exc("IndexError", <<"list", "index", "out", "of", "range">>, <<>>))
        ELSE IF layers = <<>>
        THEN left(Exc("TypeError", <<"object", "is", "not", "iterable">>, <<"NoneType">>))
        ELSE IF total.exc # NoExc THEN left(total.exc)
        ELSE IF tstamp.exc # NoExc THEN left(tstamp.exc)
        ELSE [exc |-> NoExc, dom |-> [root EXCEPT !.score = attach(@, measure.path)],
              message |-> ""]

\* ------------------------------------------ the transforms called directly
MaxBars == 3
MaxCalls == 2
MaxInterval == 3

\* The documents the transforms are called on, as parsed from a file: a
\* scoreDef (without a meterSig, with one that has no unit, or with a unit)
\* and a section of up to MaxBars measures, plain, each inside an ending,
\* each followed by a system break, or with a finis mark in the first
\* measure; the wrapper names an edition in CMN or a diplomatic one.
CallsInit ==
    /\ disk = <<>> /\ filepath = Stem("ed", "CMN")
    /\ workpackage = Unbound /\ params = <<>>
    /\ today = 1 /\ pc = "call" /\ idx = 1
    /\ exc = NoExc /\ raised_by = NoExc /\ invoked = <<>> /\ ret = NoRet /\ writes = <<>>
    /\ context_doms = <<>>
    /\ active_dom \in {DictDom(filepath, Name("ed", "CMN")),
                       DictDom(filepath, Name("dipl", "GLT"))}
    /\ LET meterSig == Mei(60, "meterSig", NoneV, <<>>)
           defs == {<<>>, <<meterSig>>}
                   \cup {<<[f \in DOMAIN meterSig \cup {"unit"} |->
                              IF f = "unit" THEN u ELSE meterSig[f]]>> : u \in {"2", "8"}}
           mark == El(70, "mei", "dir", NoneV, NoneV, "3.0", "finis", NoneV, NoneV, <<>>)
           bar(notes, i) == Sounding(i, ToString(i), notes[i])
           laid(notes, layout) ==
               Flat([i \in 1..Len(notes) |->
                       CASE layout = "plain" -> <<bar(notes, i)>>
                         [] layout = "endings" ->
                               <<Mei(80 + i, "ending", NoneV, <<bar(notes, i)>>)>>
                         [] layout = "breaks" ->
                               <<bar(notes, i), Mei(90 + i, "sb", NoneV, <<>>)>>
                         [] layout = "marked" ->
                               IF i = 1
                               THEN <<[bar(notes, i) EXCEPT !.kids = Append(@, mark)]>>
                               ELSE <<bar(notes, i)>>])
       IN  tree \in
              {Root(<<>>,
                    <<Mei(61, "scoreDef", NoneV, d), Mei(100, "section", NoneV, laid(b, l))>>,
                    NoApps) :
                  d \in defs,
                  b \in UNION {[1..k -> {<<"4">>, <<"2", "8">>}] : k \in 0..MaxBars},
                  l \in {"plain", "endings", "breaks", "marked"}}
    /\ given = tree
    /\ NoDriver /\ NoDurs /\ NoBatch

\* a call returned or raised: r is what the transform left
Called(name, kwargs, r) ==
    /\ pc \in {"call", "returned"} /\ Len(invoked) < MaxCalls
    /\ tree' = r.dom /\ given' = tree
    /\ exc' = r.exc /\ raised_by' = r.exc
    /\ pc' = IF r.exc = NoExc THEN "returned" ELSE "raised"
    /\ params' = kwargs
    /\ ret' = [at |-> name, info |-> <<>>, made |-> <<>>]
    /\ invoked' = Append(invoked, name)
    /\ UNCHANGED <<disk, filepath, workpackage, today, idx, active_dom, context_doms,
                   writes>>
    /\ UNCHANGED outside

CallFinis ==
    \E finisText \in {"", "Finis", "FINIS"} :
        Called("add_finis_to_last_measure", [finisText |-> finisText],
               add_finis_to_last_measure(Deref(active_dom, tree), finisText))

CallAddSbs ==
    \E sbInterval \in 1..MaxInterval :
        Called("add_sbs_every_n", [sbInterval |-> sbInterval],
               add_sbs_every_n(Deref(active_dom, tree), sbInterval))

CallRemoveSbs ==
    Called("remove_all_sbs", <<>>, remove_all_sbs(Deref(active_dom, tree)))

SpecCalls == CallsInit /\ [][CallFinis \/ CallAddSbs \/ CallRemoveSbs]_vars

MaxRuns == 4

\* the k-th run of the coordinator for the active file: a workpackage without
\* scripts that commits, labelled by k
RunOf(k) == [scripts |-> <<>>, commitResult |-> TRUE, label |-> "run" \o ToString(k)]

\* The active file holds no appInfo, an empty one, one with the record of
\* another application, or one that already has a record of the scripts; it
\* stands alone in its directory or beside a diplomatic transcription.
RunsInit ==
    /\ filepath = Stem("ed", "CMN")
    /\ LET app(name, day) == [ns |-> "mei", name |-> name, isodate |-> day,
                              startdate |-> NoneV, enddate |-> NoneV, ps |-> <<>>]
       IN  \E a \in {<<>>, NoApps, <<<<app("Verovio", NoneV)>>>>,
                     <<<<app("Verovio", "1"), app("GitHub Action Scripts", "0")>>>>},
                 dir \in {{}, {Stem("dipl", "GLT")}} :
              disk = [f \in dir \cup {filepath} |->
                         IF f = filepath
                         THEN Root(<<Surface(1)>>, ScoreOf(Leaves(<<"1", "2">>), "flat"), a)
                         ELSE DiplRoot(<<"1", "2">>)]
    /\ workpackage = RunOf(1) /\ params = <<>>
    /\ today = 1 /\ pc = "start" /\ idx = 1
    /\ active_dom = DictDom(filepath, <<>>)
    /\ context_doms = <<>>
    /\ tree = disk[filepath] /\ given = tree
    /\ exc = NoExc /\ raised_by = NoExc /\ invoked = <<>> /\ ret = NoRet /\ writes = <<>>
    /\ NoDriver /\ NoDurs /\ NoBatch

\* the coordinator is started again for the file, on the same day or on the
\* next: the new process has what the file holds
Rerun ==
    /\ pc = "done" /\ Len(writes) < MaxRuns
    /\ today' \in {today, today + 1}
    /\ workpackage' = RunOf(Len(writes) + 1)
    /\ tree' = disk[filepath]
    /\ active_dom' = DictDom(filepath, <<>>)
    /\ context_doms' = <<>>
    /\ pc' = "start" /\ idx' = 1
    /\ UNCHANGED <<disk, filepath, params, given, exc, raised_by, invoked, ret, writes>>
    /\ UNCHANGED outside

SpecRuns == RunsInit /\ [][Load \/ Commit \/ Rerun]_vars

\* ------------------------------------------- properties: the provenance
\* C26: when a run has committed and the file first held an appInfo without a
\* record named GitHub Action Scripts, the file holds exactly one such record,
\* its p elements are the labels of the committed runs in their order, and it
\* carries isodate alone when every commit was made on the first day, and
\* otherwise startdate (the day of the first commit) and enddate (the day of
\* this commit) without isodate
C26_OneProvenanceRecord ==
    LET mine(a) == a.name = "GitHub Action Scripts"
        before == IF given.appInfo = <<>> THEN <<>> ELSE SelectSeq(given.appInfo[1], mine)
        records == SelectSeq(disk[filepath].appInfo[1], mine)
    IN  (pc = "done" /\ writes # <<>> /\ given.appInfo # <<>> /\ before = <<>>)
        => /\ Len(records) = 1
           /\ records[1].ps = [k \in 1..Len(writes) |-> RunOf(k).label]
           /\ IF today = 1
              THEN /\ records[1].isodate = "1"
                   /\ records[1].startdate = NoneV /\ records[1].enddate = NoneV
              ELSE /\ records[1].isodate = NoneV
                   /\ records[1].startdate = "1"
                   /\ records[1].enddate = ToString(today)

\* three runs have committed, the second on the first day and the third on
\* the next
C26_Witness ==
    LET mine(a) == a.name = "GitHub Action Scripts"
        records == SelectSeq(disk[filepath].appInfo[1], mine)
    IN  /\ pc = "done" /\ Len(writes) = 3 /\ today = 2
        /\ given.appInfo # <<>> /\ SelectSeq(given.appInfo[1], mine) = <<>>
        /\ Len(records) = 1 /\ records[1].ps = <<"run1", "run2", "run3">>
        /\ records[1].startdate = "1" /\ records[1].enddate = "2"

\* --------------------------------------------- properties: system breaks
\* C27: after add_sbs_every_n with interval n on a document of M measures the
\* measures are the same in the same order, the next sibling of the measure at
\* each position n, 2n, ... is an sb made by the call, the document holds
\* M \div n more sb elements than before, and without those next siblings the
\* elements are the given ones, in the given order and at the given depth
C27_BreakAfterEveryNth ==
    LET n == params.sbInterval
        was == Descendants(given.score, "measure")
        now == Descendants(tree.score, "measure")
        isSb(e) == e.node.tag = "sb"
        after(e) == Append(SubSeq(e.path, 1, Len(e.path) - 1), e.path[Len(e.path)] + 1)
        added == {after(now[k]) : k \in {j \in 1..Len(now) : j % n = 0}}
        all == Iter(tree.score)
        kept(e) == e.path \notin added
        shape(s) == [i \in 1..Len(s) |-> <<s[i].node.uid, s[i].node.tag, Len(s[i].path)>>]
    IN  (pc = "returned" /\ ret.at = "add_sbs_every_n")
        => /\ shape(now) = shape(was)
           /\ Cardinality(added) = Len(was) \div n
           /\ \A p \in added :
                 \E i \in 1..Len(all) :
                    /\ all[i].path = p
                    /\ all[i].node.tag = "sb" /\ all[i].node.ns = ""
                    /\ all[i].node.kids = <<>>
           /\ Len(SelectSeq(all, isSb))
                 = Len(SelectSeq(Iter(given.score), isSb)) + Len(was) \div n
           /\ shape(SelectSeq(all, kept)) = shape(Iter(given.score))

\* three measures, each inside an ending, and an interval of 2: one break,
\* after the second measure
C27_Witness ==
    LET isSb(e) == e.node.tag = "sb"
        now == Descendants(tree.score, "measure")
    IN  /\ pc = "returned" /\ ret.at = "add_sbs_every_n" /\ Len(invoked) = 1
        /\ params.sbInterval = 2 /\ Len(now) = 3
        /\ \A k \in 1..3 : InSeq("ending", now[k].anc)
        /\ Len(SelectSeq(Iter(given.score), isSb)) = 0
        /\ Len(SelectSeq(Iter(tree.score), isSb)) = 1
        /\ now[2].parent.kids[2].tag = "sb"

\* C28: after remove_all_sbs the document holds no sb element, those inserted
\* by an earlier add_sbs_every_n included; the other elements are the given
\* ones in the given order and at the given depth; a second remove_all_sbs
\* right after the first leaves the document as it was
C28_NoSystemBreakLeft ==
    LET isSb(e) == e.node.tag = "sb"
        other(e) == ~isSb(e)
        shape(s) == [i \in 1..Len(s) |-> <<s[i].node.uid, s[i].node.tag, Len(s[i].path)>>]
    IN  (pc = "returned" /\ ret.at = "remove_all_sbs")
        => /\ SelectSeq(Iter(tree.score), isSb) = <<>>
           /\ shape(Iter(tree.score)) = shape(SelectSeq(Iter(given.score), other))
           /\ invoked = <<"remove_all_sbs", "remove_all_sbs">> => tree = given

\* ------------------------------------------- properties: nested sections
\* C29: when the given document holds a section inside a section and no
\* expansion, the call of add_section_foldir_from_context_to_ed raised
\* RuntimeError and left the document as given: no section made, no child
\* moved, no annotation added
C29_NestedWithoutExpansionRaises ==
    LET sections == Descendants(given.score, "section")
        nested == \E i \in 1..Len(sections) : InSeq("section", sections[i].anc)
    IN  (pc # "call" /\ nested /\ Descendants(given.score, "expansion") = <<>>)
        => pc = "raised" /\ exc.type = "RuntimeError" /\ tree = given /\ ret.made = <<>>

\* an edition with a nested section and no expansion was handed a context
\* of the type asked for, and the call ended at the count of the sections
C29_Witness ==
    LET sections == Descendants(given.score, "section")
    IN  /\ pc = "raised" /\ ret.at = "sections" /\ tree = given
        /\ \E i \in 1..Len(sections) : InSeq("section", sections[i].anc)
        /\ Descendants(given.score, "expansion") = <<>>
        /\ Len(Descendants(given.score, "measure")) = 3
        /\ Selected # <<>>

\* ------------------------------------------------ properties: the files
\* C30: no step of execute_workpackage adds or removes a file or changes a
\* file other than the active one, and the run writes the active file at most
\* once and no other file
C30_OnlyActiveFileWritten ==
    [][/\ DOMAIN disk' = DOMAIN disk
       /\ \A f \in DOMAIN disk \ {filepath} : disk'[f] = disk[f]
       /\ Len(writes') <= 1
       /\ \A i \in 1..Len(writes') : writes'[i] = filepath]_vars

\* a run beside two sibling files committed: the active file is rewritten,
\* the siblings hold what they held
C30_Witness ==
    /\ pc = "done" /\ writes = <<filepath>>
    /\ DOMAIN disk = {filepath, Stem("dipl", "GLT"), Stem("ed", "GLT")}
    /\ disk[filepath] # given
    /\ disk[Stem("dipl", "GLT")] = DiplRoot(<<"1", "2">>)
    /\ disk[Stem("ed", "GLT")] = EdRoot(<<"1", "2">>, "2")
    /\ Len(context_doms) = 2

====
